---- MODULE Spec2Model ----
(***************************************************************************)
(* Model of family-expense-bot: the expense line parser, the ledger store  *)
(* adapter (addExpenses / undoLastChange over the two Firestore documents  *)
(* 'aggregated' and 'backup') and the command dispatcher of the LINE       *)
(* webhook.                                                                *)
(*                                                                         *)
(* A text is a sequence of characters; a character is a one-element        *)
(* string.  The CJK characters of the command words are written with an    *)
(* ASCII name each ("cha" "kan" = 查看, "da" "cuo" = 打錯,                 *)
(* "zheng" "li" = 整理, "nai" = 奶, "ha" "luo" = 哈囉): every such name    *)
(* stands for ONE character that is neither a digit nor whitespace.        *)
(*                                                                         *)
(* new Date() values are not tracked: a document records which metadata    *)
(* fields (lastUpdated, backupTime) it carries, and a DateEntry is its     *)
(* date and its item sequence.                                             *)
(***************************************************************************)
EXTENDS Integers, Sequences, FiniteSets, TLC

VARIABLES
    ledger,     \* document expenses/aggregated: Absent or a document
    backup,     \* document expenses/backup: Absent or a document
    proc,       \* per in-flight handleTextMessage call: its position and locals
    hist,       \* the last three completed addExpenses/undoLastChange calls
    lastAdd     \* whether addExpenses was ever called; of the most recent call
                \* that returned success:true: the Ledger before it, its
                \* arguments, and whether an undo has restored a backup since

vars == <<ledger, backup, proc, hist, lastAdd>>

(***************************** bounds **************************************)
\* addExpenses is not started once the Ledger holds more than this many items
MaxItems == 3

(***************************** text ****************************************)
NL == "\n"
SP == " "
Digits == <<"0", "1", "2", "3", "4", "5", "6", "7", "8", "9">>

IsDigit(c) == \E i \in 1..10 : Digits[i] = c

DigitVal(c) == (CHOOSE i \in 1..10 : Digits[i] = c) - 1

\* \s of the regular expressions and the whitespace of String.prototype.trim
IsSpace(c) == c \in {SP, NL, "\t", "\r"}

RECURSIVE TrimStart(_)
TrimStart(s) ==
    IF s # <<>> /\ IsSpace(Head(s)) THEN TrimStart(Tail(s)) ELSE s

RECURSIVE TrimEnd(_)
TrimEnd(s) ==
    IF s # <<>> /\ IsSpace(s[Len(s)]) THEN TrimEnd(SubSeq(s, 1, Len(s) - 1)) ELSE s

\* String.prototype.trim
Trim(s) == TrimEnd(TrimStart(s))

\* String.prototype.split('\n')
RECURSIVE SplitLines(_)
SplitLines(s) ==
    IF \A i \in 1..Len(s) : s[i] # NL THEN <<s>>
    ELSE LET k == CHOOSE i \in 1..Len(s) :
                      s[i] = NL /\ \A j \in 1..(i - 1) : s[j] # NL
         IN  <<SubSeq(s, 1, k - 1)>> \o SplitLines(SubSeq(s, k + 1, Len(s)))

\* length of the maximal run of digits at the end of s: the match of /(\d+)$/
RECURSIVE DigitRun(_)
DigitRun(s) ==
    IF s # <<>> /\ IsDigit(s[Len(s)])
    THEN 1 + DigitRun(SubSeq(s, 1, Len(s) - 1)) ELSE 0

\* parseInt(digits, 10)
RECURSIVE ParseInt(_)
ParseInt(ds) ==
    IF ds = <<>> THEN 0
    ELSE 10 * ParseInt(SubSeq(ds, 1, Len(ds) - 1)) + DigitVal(ds[Len(ds)])

RECURSIVE SumPrices(_)
SumPrices(items) ==
    IF items = <<>> THEN 0 ELSE Head(items).price + SumPrices(Tail(items))

(***************************** parser **************************************)
\* mutant: a price of 0 is accepted
ParseLineZeroPrice(line) ==
    LET trimmedLine == Trim(line)
        n == DigitRun(trimmedLine)
        price == ParseInt(SubSeq(trimmedLine, Len(trimmedLine) - n + 1, Len(trimmedLine)))
        itemName == Trim(SubSeq(trimmedLine, 1, Len(trimmedLine) - n))
    IN  IF trimmedLine = <<>> \/ n = 0 THEN <<>>
        ELSE IF itemName # <<>> /\ price >= 0
             THEN <<[name |-> itemName, price |-> price]>>
             ELSE <<>>

\* mutant: the whitespace between the name and the price stays in the name
ParseLineNameUntrimmed(line) ==
    LET trimmedLine == Trim(line)
        n == DigitRun(trimmedLine)
        price == ParseInt(SubSeq(trimmedLine, Len(trimmedLine) - n + 1, Len(trimmedLine)))
        itemName == SubSeq(trimmedLine, 1, Len(trimmedLine) - n)
    IN  IF trimmedLine = <<>> \/ n = 0 THEN <<>>
        ELSE IF itemName # <<>> /\ price > 0
             THEN <<[name |-> itemName, price |-> price]>>
             ELSE <<>>

\* one line of parseExpenseMessage's loop: the items it pushes (none or one)
ParseLine(line) ==
    LET trimmedLine == Trim(line)
        n == DigitRun(trimmedLine)
        price == ParseInt(SubSeq(trimmedLine, Len(trimmedLine) - n + 1, Len(trimmedLine)))
        \* replace(/\s*\d+$/, '').trim()
        itemName == Trim(SubSeq(trimmedLine, 1, Len(trimmedLine) - n))
    IN  IF trimmedLine = <<>> \/ n = 0 THEN <<>>
        ELSE IF itemName # <<>> /\ price > 0
             THEN <<[name |-> itemName, price |-> price]>>
             ELSE <<>>

RECURSIVE ParseLines(_)
ParseLines(lines) ==
    IF lines = <<>> THEN <<>>
    ELSE ParseLine(Head(lines)) \o ParseLines(Tail(lines))

parseExpenseMessage(message) ==
    LET lines == SelectSeq(SplitLines(Trim(message)), LAMBDA l : Trim(l) # <<>>)
        items == ParseLines(lines)
    IN  [items |-> items, total |-> SumPrices(items)]

(***************************** dates ***************************************)
\* getDateInfo().storageDate values the clock can yield: YYYY-MM-DD
Date1 == <<"2", "0", "2", "4", "-", "0", "8", "-", "2", "5">>
Date2 == <<"2", "0", "2", "4", "-", "0", "9", "-", "0", "1">>
Date3 == <<"2", "0", "2", "4", "-", "0", "8", "-", "2", "6">>
StorageDates == {Date1, Date2}

\* Number.prototype.toString for a non-negative integer
RECURSIVE ToDigits(_)
ToDigits(n) ==
    IF n < 10 THEN <<Digits[n + 1]>>
    ELSE ToDigits(n \div 10) \o <<Digits[(n % 10) + 1]>>

Includes(s, c) == \E i \in 1..Len(s) : s[i] = c

StartsWith(s, prefix) ==
    Len(prefix) <= Len(s) /\ SubSeq(s, 1, Len(prefix)) = prefix

\* moment(date, 'YYYY-MM-DD').format('M/D') for a well-formed YYYY-MM-DD date
FormatMD(date) ==
    ToDigits(ParseInt(SubSeq(date, 6, 7))) \o <<"/">> \o ToDigits(ParseInt(SubSeq(date, 9, 10)))

(***************************** historical data ****************************)
\* scripts/load-from-file.js (the same parser is in load-initial-data.js)

\* /^(\d{1,2}\/\d{1,2})$/
IsDateLine(l) ==
    \E k \in 2..3 :
        /\ k < Len(l)
        /\ Len(l) - k \in 1..2
        /\ l[k] = "/"
        /\ \A i \in (1..Len(l)) \ {k} : IsDigit(l[i])

\* r matches \s*(\d+)$ from its first character
SpacesThenDigits(r) ==
    \E j \in 0..(Len(r) - 1) :
        /\ \A i \in 1..j : IsSpace(r[i])
        /\ \A i \in (j + 1)..Len(r) : IsDigit(r[i])

\* /^(.+?)\s*(\d+)$/: the length of the lazy first group, 0 without a match
NameLength(l) ==
    LET ks == { k \in 1..(Len(l) - 1) :
                   /\ \A i \in 1..k : l[i] \notin {NL, "\r"}
                   /\ SpacesThenDigits(SubSeq(l, k + 1, Len(l))) }
    IN  IF ks = {} THEN 0 ELSE CHOOSE k \in ks : \A m \in ks : k <= m

\* lines 38-48: the items an item line adds to currentItems (none or one)
HistoricalItem(l, currentDate) ==
    LET k == NameLength(l)
        itemName == Trim(SubSeq(l, 1, k))
        price == ParseInt(TrimStart(SubSeq(l, k + 1, Len(l))))
    IN  IF k > 0 /\ currentDate # <<>> /\ itemName # <<>> /\ price > 0
        THEN <<[name |-> itemName, price |-> price]>>
        ELSE <<>>

\* mutant: a date without items is pushed too
FlushAnyDate(entries, currentDate, currentItems) ==
    IF currentDate # <<>>
    THEN Append(entries, [date |-> currentDate, items |-> currentItems])
    ELSE entries

\* lines 25-31 and 54-60: the entry of the date that ends, if it has items
Flush(entries, currentDate, currentItems) ==
    IF currentDate # <<>> /\ currentItems # <<>>
    THEN Append(entries, [date |-> currentDate, items |-> currentItems])
    ELSE entries

\* lines 16-60: the loop over the lines and the push after it
RECURSIVE HistoricalLoop(_, _, _, _)
HistoricalLoop(lines, entries, currentDate, currentItems) ==
    IF lines = <<>> THEN Flush(entries, currentDate, currentItems)
    ELSE LET trimmedLine == Trim(Head(lines))
         IN  IF trimmedLine = <<>>
             THEN HistoricalLoop(Tail(lines), entries, currentDate, currentItems)
             ELSE IF IsDateLine(trimmedLine)
             THEN HistoricalLoop(Tail(lines), Flush(entries, currentDate, currentItems),
                                 trimmedLine, <<>>)
             ELSE HistoricalLoop(Tail(lines), entries, currentDate,
                                 currentItems \o HistoricalItem(trimmedLine, currentDate))

parseHistoricalData(text) == HistoricalLoop(SplitLines(Trim(text)), <<>>, <<>>, <<>>)

\* the contents of historical-data.txt
TextTwoDays ==
    <<"8", "/", "4", NL, "nai", SP, "2", "5", NL, NL, "8", "/", "6", NL, "b", "3", NL>>
TextDayTwice ==
    <<"8", "/", "4", NL, "a", SP, "1", NL, "8", "/", "4", NL, "b", SP, "2">>
TextNoDate == <<"a", SP, "1", NL, "1", "2", "/", "3", "1", NL, "7">>
HistoricalTexts == {TextTwoDays, TextDayTwice, TextNoDate}

(***************************** documents ***********************************)
\* A document of the store.  exists = FALSE is a missing document
\* (doc.exists false); fields are the metadata fields the document carries.
Absent == [exists |-> FALSE, entries |-> <<>>, fields |-> {}]

Doc(entries, fields) == [exists |-> TRUE, entries |-> entries, fields |-> fields]

RECURSIVE TotalItems(_)
TotalItems(entries) ==
    IF entries = <<>> THEN 0
    ELSE Len(Head(entries).items) + TotalItems(Tail(entries))

\* entries.findIndex(entry => entry.date === date); 0 stands for -1
FindIndex(entries, date) ==
    IF \E i \in 1..Len(entries) : entries[i].date = date
    THEN CHOOSE i \in 1..Len(entries) :
             entries[i].date = date /\ \A j \in 1..(i - 1) : entries[j].date # date
    ELSE 0

\* mutant: the new items are put in front of the entry's items
MergeItemsInFront(entries, items, date) ==
    LET existingEntryIndex == FindIndex(entries, date)
    IN  IF existingEntryIndex # 0
        THEN [entries EXCEPT ![existingEntryIndex].items = items \o @]
        ELSE Append(entries, [date |-> date, items |-> items])

\* addExpenses, lines 28-43: merge into the entry of this date or push a new entry
MergeItems(entries, items, date) ==
    LET existingEntryIndex == FindIndex(entries, date)
    IN  IF existingEntryIndex # 0
        THEN [entries EXCEPT ![existingEntryIndex].items = @ \o items]
        ELSE Append(entries, [date |-> date, items |-> items])

\* addExpenses, lines 17-20: the document read, or { entries: [] }
CurrentData(doc) ==
    IF doc.exists THEN doc ELSE Doc(<<>>, {})

\* mutant: the backup is taken after the new items were merged in
BackupAfterMerge(q) ==
    Doc(MergeItems(q.data.entries, q.items, q.date), q.data.fields \cup {"backupTime"})

\* mutant: an existing backup is kept instead of being overwritten
BackupKeepsOld(q) ==
    IF backup.exists THEN backup
    ELSE Doc(q.data.entries, q.data.fields \cup {"backupTime"})

\* addExpenses, lines 23-26: { ...currentData, backupTime } of the call q,
\* serialized by backupRef.set before the entries are merged
BackupOf(q) ==
    Doc(q.data.entries, q.data.fields \cup {"backupTime"})

\* mutant: undo consumes the backup
BackupCleared(backupData) == Absent

\* undoLastChange, lines 95-127: no backupRef.set; the backup read stays stored
BackupAfterUndo(backupData) == backupData

\* mutant: the items are merged into the Ledger as stored at the time of the
\* write (a transactional read-modify-write)
UpdatedLedgerFresh(currentData, items, date) ==
    Doc(MergeItems(ledger.entries, items, date), ledger.fields \cup {"lastUpdated"})

\* addExpenses, lines 28-47: the document written to the Ledger
UpdatedLedger(currentData, items, date) ==
    Doc(MergeItems(currentData.entries, items, date),
        currentData.fields \cup {"lastUpdated"})

\* mutant: the backup document is written back as it is
RestoredLedgerWithBackupTime(backupData) ==
    Doc(backupData.entries, backupData.fields \cup {"lastUpdated"})

\* undoLastChange, lines 109-112: the backup minus backupTime, plus lastUpdated
RestoredLedger(backupData) ==
    Doc(backupData.entries, (backupData.fields \ {"backupTime"}) \cup {"lastUpdated"})

(***************************** messages ************************************)
CmdView     == <<"cha", "kan">>
CmdUndo     == <<"da", "cuo">>
CmdOrganize == <<"zheng", "li">>

\* the message texts a chat member sends
MsgView          == <<SP, "cha", "kan", NL>>
MsgUndo          == <<"da", "cuo">>
MsgOrganize      == <<"zheng", "li", SP>>
MsgOrganizeMonth == <<"zheng", "li", "2", "0", "2", "4", "0", "8">>
MsgChat          == <<"ha", "luo">>
MsgZeroPrice     == <<"a", SP, "0">>
MsgOnlyDigits    == <<SP, "1", "2">>
MsgOne           == <<"nai", SP, "2", "5">>
MsgTwo           == <<"a", SP, "1", NL, SP, "b", SP, SP, "2", NL>>

Messages ==
    { MsgView, MsgUndo, MsgOrganize, MsgOrganizeMonth, MsgChat,
      MsgZeroPrice, MsgOnlyDigits, MsgOne, MsgTwo }

\* the fixed reply texts, one token each
TxtRecorded       == "[yi ji lu]"                  \* ✅ 已記錄
TxtItemsTotal     == "[xiang xiao fei, zong ji:]"  \* 項消費，總計：
TxtNoRecords      == <<"[mu qian mei you ji lu]">>
TxtViewFailed     == <<"[cha kan shi bai]">>
TxtNoBackup       == <<"[mei you ke yi hui fu de ji lu]">>
TxtRestored       == <<"[yi hui fu dao shang yi ge zhuang tai]">>
TxtUndoFailed     == <<"[hui fu shi bai]">>
TxtNothingAtAll   == <<"[mu qian mei you ji zhang zi liao ke yi zheng li]">>
TxtNothingInMonth == "[mei you ji zhang zi liao ke yi zheng li]"
TxtOrganizeFailed == <<"[zheng li shi bai]">>

\* handleTextMessage, line 142: `✅ 已記錄 ${n} 項消費，總計：${total}`
AckText(items) ==
    <<TxtRecorded, SP>> \o ToDigits(Len(items)) \o <<SP, TxtItemsTotal>>
        \o ToDigits(SumPrices(items))

\* /^整理(\d{6})$/ on the trimmed message: the six digits, or <<>> for no match
OrganizeMonthMatch(t) ==
    IF /\ Len(t) = 8
       /\ SubSeq(t, 1, 2) = CmdOrganize
       /\ \A i \in 3..8 : IsDigit(t[i])
    THEN SubSeq(t, 3, 8) ELSE <<>>

\* mutant: the month pattern is tried after the expense parser
RouteParseFirst(message) ==
    LET t == Trim(message)
    IN  IF t = CmdView THEN "view"
        ELSE IF t = CmdUndo THEN "undo"
        ELSE IF t = CmdOrganize THEN "organize"
        ELSE IF Len(parseExpenseMessage(message).items) > 0 THEN "expense"
        ELSE IF OrganizeMonthMatch(t) # <<>> THEN "organizeMonth"
        ELSE "ignore"

\* handleTextMessage, lines 101-133: which branch a message takes
Route(message) ==
    LET t == Trim(message)
    IN  IF t = CmdView THEN "view"
        ELSE IF t = CmdUndo THEN "undo"
        ELSE IF t = CmdOrganize THEN "organize"
        ELSE IF OrganizeMonthMatch(t) # <<>> THEN "organizeMonth"
        ELSE IF Len(parseExpenseMessage(message).items) = 0 THEN "ignore"
        ELSE "expense"

\* mutant: the items of an entry are listed last first
RECURSIVE ItemLinesReversed(_)
ItemLinesReversed(items) ==
    IF items = <<>> THEN <<>>
    ELSE ItemLinesReversed(Tail(items))
             \o Head(items).name \o <<SP>> \o ToDigits(Head(items).price) \o <<NL>>

\* handleViewExpenses, lines 178-191: the text of the view reply
RECURSIVE ItemLines(_)
ItemLines(items) ==
    IF items = <<>> THEN <<>>
    ELSE Head(items).name \o <<SP>> \o ToDigits(Head(items).price) \o <<NL>>
             \o ItemLines(Tail(items))

RECURSIVE ViewLines(_)
ViewLines(entries) ==
    IF entries = <<>> THEN <<>>
    ELSE LET entry == Head(entries)
             displayDate == IF Includes(entry.date, "-") THEN FormatMD(entry.date)
                            ELSE entry.date
         IN  displayDate \o <<NL>> \o ItemLines(entry.items) \o ViewLines(Tail(entries))

ViewText(data) ==
    IF Len(data.entries) = 0 THEN TxtNoRecords ELSE Trim(ViewLines(data.entries))

\* mutant: the filter compares the year only
filterExpensesByYear(entries, yearMonth, currentMonth) ==
    IF yearMonth = <<>>
    THEN SelectSeq(entries, LAMBDA entry : StartsWith(entry.date, SubSeq(currentMonth, 1, 4)))
    ELSE SelectSeq(entries, LAMBDA entry : StartsWith(entry.date, SubSeq(yearMonth, 1, 4)))

\* ExpenseDatabase.formatAggregatedText, database.js lines 79-93: the dates as
\* stored
RECURSIVE AggregatedLines(_)
AggregatedLines(entries) ==
    IF entries = <<>> THEN <<>>
    ELSE Head(entries).date \o <<NL>> \o ItemLines(Head(entries).items)
             \o AggregatedLines(Tail(entries))

\* mutant: only the first date is written, all items follow it
RECURSIVE AllItemLines(_)
AllItemLines(entries) ==
    IF entries = <<>> THEN <<>>
    ELSE ItemLines(Head(entries).items) \o AllItemLines(Tail(entries))

formatAggregatedTextOneDate(data) ==
    IF Len(data.entries) = 0 THEN TxtNoRecords
    ELSE Trim(data.entries[1].date \o <<NL>> \o AllItemLines(data.entries))

formatAggregatedText(data) ==
    IF Len(data.entries) = 0 THEN TxtNoRecords ELSE Trim(AggregatedLines(data.entries))

\* filterExpensesByMonth: currentMonth is moment.tz('Asia/Taipei').format('YYYY-MM')
filterExpensesByMonth(entries, yearMonth, currentMonth) ==
    IF yearMonth = <<>>
    THEN SelectSeq(entries, LAMBDA entry : StartsWith(entry.date, currentMonth))
    ELSE LET targetMonth == SubSeq(yearMonth, 1, 4) \o <<"-">> \o SubSeq(yearMonth, 5, 6)
         IN  SelectSeq(entries, LAMBDA entry : StartsWith(entry.date, targetMonth))

\* handleOrganizeExpenses, lines 454/464: the month in the reply
MonthText(yearMonth) ==
    IF yearMonth # <<>>
    THEN SubSeq(yearMonth, 1, 4) \o <<"nian">> \o ToDigits(ParseInt(SubSeq(yearMonth, 5, 6)))
             \o <<"yue">>
    ELSE <<"ben yue">>

(***************************** organize ************************************)
\* String.prototype.localeCompare on date strings (digits and '-')
CharRank(c) == IF IsDigit(c) THEN DigitVal(c) + 1 ELSE 0

StrLess(a, b) ==
    \/ \E i \in 1..Len(a) :
          /\ i <= Len(b)
          /\ SubSeq(a, 1, i - 1) = SubSeq(b, 1, i - 1)
          /\ CharRank(a[i]) < CharRank(b[i])
    \/ Len(a) < Len(b) /\ a = SubSeq(b, 1, Len(a))

RECURSIVE InsertByDate(_, _)
InsertByDate(sorted, entry) ==
    IF sorted = <<>> THEN <<entry>>
    ELSE IF StrLess(entry.date, Head(sorted).date) THEN <<entry>> \o sorted
    ELSE <<Head(sorted)>> \o InsertByDate(Tail(sorted), entry)

\* mutant: the entries are taken as stored
SortByDateAsStored(entries) == entries

\* formatExpensesForAI, line 244: filteredEntries.sort(...) (a stable sort)
RECURSIVE SortByDate(_)
SortByDate(entries) ==
    IF entries = <<>> THEN <<>>
    ELSE InsertByDate(SortByDate(SubSeq(entries, 1, Len(entries) - 1)),
                      entries[Len(entries)])

\* lines 250-261: the items of the sorted entries, each with its display date
RECURSIVE DatedItems(_)
DatedItems(sortedEntries) ==
    IF sortedEntries = <<>> THEN <<>>
    ELSE LET entry == Head(sortedEntries)
         IN  [i \in 1..Len(entry.items) |->
                 [date |-> FormatMD(entry.date), name |-> entry.items[i].name,
                  price |-> entry.items[i].price]]
             \o DatedItems(Tail(sortedEntries))

\* lines 247-261: itemId counts from 1
StructuredData(sortedEntries) ==
    LET flat == DatedItems(sortedEntries)
    IN  [i \in 1..Len(flat) |->
            [id |-> i, date |-> flat[i].date, name |-> flat[i].name,
             price |-> flat[i].price]]

\* formatExpensesForAI, lines 242-284; today is moment.tz('Asia/Taipei')
formatExpensesForAI(filteredEntries, yearMonth, today) ==
    LET structuredData == StructuredData(SortByDate(filteredEntries))
        year == IF yearMonth # <<>> THEN SubSeq(yearMonth, 1, 4) ELSE SubSeq(today, 1, 4)
        monthNum == IF yearMonth # <<>> THEN ParseInt(SubSeq(yearMonth, 5, 6))
                    ELSE ParseInt(SubSeq(today, 6, 7))
    IN  [ items |-> structuredData,
          totalCount |-> Len(structuredData),
          totalAmount |-> SumPrices(structuredData),
          monthText |-> year \o <<"nian">> \o ToDigits(monthNum) \o <<"yue">> ]

\* lines 385-389: categorizedItems[category].push(item); the keys keep the
\* order in which they were first used
AddToCategory(cats, category, item) ==
    IF \E i \in 1..Len(cats) : cats[i].category = category
    THEN LET i == CHOOSE k \in 1..Len(cats) : cats[k].category = category
         IN  [cats EXCEPT ![i].items = Append(@, item)]
    ELSE Append(cats, [category |-> category, items |-> <<item>>])

\* mutant: an unknown id is taken for the first item
RECURSIVE CategorizedItemsDefault(_, _)
CategorizedItemsDefault(items, categorization) ==
    IF categorization = <<>> THEN <<>>
    ELSE LET n == Len(categorization)
             cat == categorization[n]
             before == CategorizedItemsDefault(items, SubSeq(categorization, 1, n - 1))
         IN  AddToCategory(before, cat.category,
                           IF cat.id \in 1..Len(items) THEN items[cat.id] ELSE items[1])

\* lines 377-390: the loop over the classifier's list; items.find by id, an
\* unknown id is skipped
RECURSIVE CategorizedItems(_, _)
CategorizedItems(items, categorization) ==
    IF categorization = <<>> THEN <<>>
    ELSE LET n == Len(categorization)
             cat == categorization[n]
             before == CategorizedItems(items, SubSeq(categorization, 1, n - 1))
         IN  IF cat.id \notin 1..Len(items) THEN before
             ELSE AddToCategory(before, cat.category, items[cat.id])

\* mutant: the total of a category counts its first item only
CategoryTotalsFirstOnly(categorizedItems) ==
    [i \in 1..Len(categorizedItems) |->
        [category |-> categorizedItems[i].category, items |-> categorizedItems[i].items,
         total |-> categorizedItems[i].items[1].price]]

\* lines 393-397
CategoryTotals(categorizedItems) ==
    [i \in 1..Len(categorizedItems) |->
        [category |-> categorizedItems[i].category, items |-> categorizedItems[i].items,
         total |-> SumPrices(categorizedItems[i].items)]]

RECURSIVE InsertByTotal(_, _)
InsertByTotal(sorted, c) ==
    IF sorted = <<>> THEN <<c>>
    ELSE IF Head(sorted).total < c.total THEN <<c>> \o sorted
    ELSE <<Head(sorted)>> \o InsertByTotal(Tail(sorted), c)

\* lines 400-401: sort by total, descending (a stable sort)
RECURSIVE SortedCategories(_)
SortedCategories(categoryTotals) ==
    IF categoryTotals = <<>> THEN <<>>
    ELSE InsertByTotal(SortedCategories(SubSeq(categoryTotals, 1, Len(categoryTotals) - 1)),
                       categoryTotals[Len(categoryTotals)])

\* items.map(i => i.price).join('+')
RECURSIVE JoinPrices(_)
JoinPrices(items) ==
    IF items = <<>> THEN <<>>
    ELSE IF Len(items) = 1 THEN ToDigits(items[1].price)
    ELSE ToDigits(items[1].price) \o <<"+">> \o JoinPrices(Tail(items))

\* lines 416-418
RECURSIVE BlockLines(_)
BlockLines(items) ==
    IF items = <<>> THEN <<>>
    ELSE Head(items).date \o <<SP, SP, SP>> \o Head(items).name \o <<SP, SP, SP>>
             \o ToDigits(Head(items).price) \o <<NL>> \o BlockLines(Tail(items))

\* lines 411-420
RECURSIVE Blocks(_)
Blocks(sortedCategories) ==
    IF sortedCategories = <<>> THEN <<>>
    ELSE LET data == Head(sortedCategories)
         IN  <<data.category, SP>> \o JoinPrices(data.items) \o <<"=">>
                 \o ToDigits(data.total) \o <<NL>> \o BlockLines(data.items) \o <<NL>>
                 \o Blocks(Tail(sortedCategories))

\* lines 426-428
RECURSIVE Ranking(_)
Ranking(sortedCategories) ==
    IF sortedCategories = <<>> THEN <<>>
    ELSE <<Head(sortedCategories).category, SP>> \o ToDigits(Head(sortedCategories).total)
             \o <<NL>> \o Ranking(Tail(sortedCategories))

\* lines 404-430: the report
Output(expenseData, sortedCategories) ==
    <<"[zong gong]", SP>> \o JoinPrices(expenseData.items) \o <<"=">>
        \o ToDigits(expenseData.totalAmount) \o <<NL, NL>>
        \o Blocks(sortedCategories)
        \o <<"-", "-", "-", "-", "-", NL, NL>>
        \o expenseData.monthText \o <<"[jia li kai xiao:]">>
        \o ToDigits(expenseData.totalAmount) \o <<NL, NL>>
        \o <<"[you gao zhi di:]", NL>>
        \o Ranking(sortedCategories)

\* organizeExpensesWithAI, lines 371-430, for the list the classifier returned
organizeExpensesWithAI(expenseData, categorization) ==
    LET sortedCategories ==
            SortedCategories(CategoryTotals(CategorizedItems(expenseData.items,
                                                             categorization)))
    IN  [ sortedCategories |-> sortedCategories,
          output |-> Output(expenseData, sortedCategories) ]

(***************************** handler state *******************************)
\* index.js, lines 38-43: the classifier client exists when OPENAI_API_KEY is set
OpenAIConfigured == TRUE

\* one effect of a handler, in the order the handler performs them
Ev(e, arg, items) == [e |-> e, arg |-> arg, items |-> items]

Store == [ledger |-> ledger, backup |-> backup]

\* webhookHandler, lines 62, 76, 81, 84: res.status(status).send(body)
Response(method, status, body) == [method |-> method, status |-> status, body |-> body]

NoResponse == Response("none", 0, "")

\* no request in progress; res is the response to the last request
Idle ==
    [ pc |-> "idle", route |-> "none", message |-> <<>>, items |-> <<>>,
      date |-> <<>>, yearMonth |-> <<>>, data |-> Absent, text |-> <<>>,
      log |-> <<>>, pre |-> [ledger |-> Absent, backup |-> Absent],
      threw |-> FALSE, overlap |-> {}, res |-> NoResponse,
      sent |-> <<>>, categorization |-> <<>>, report |-> <<>> ]

\* the reply sent from the catch block of handleViewExpenses / handleUndo /
\* handleOrganizeExpenses
CatchText(route) ==
    IF route = "view" THEN TxtViewFailed
    ELSE IF route = "undo" THEN TxtUndoFailed
    ELSE TxtOrganizeFailed

\* the history keeps the last three calls
Push(h, r) == IF Len(h) = 3 THEN Append(Tail(h), r) ELSE Append(h, r)

\* a completed store call: whether it returned success, whether a store
\* operation of it failed, and the store when its handler started (pre)
Call(op, ok, err, q) ==
    [ op |-> op, ok |-> ok, err |-> err, pre |-> q.pre.ledger.entries,
      hadBackup |-> q.pre.backup.exists ]

(***************************** handleTextMessage ***************************)
\* mutant: a message without items is not silenced and reaches addExpenses
StartWithoutItems(route, message, today) ==
    LET base == [Idle EXCEPT !.route = route, !.message = message, !.pre = Store]
        items == parseExpenseMessage(message).items
    IN  IF route = "view"
        THEN [base EXCEPT !.pc = "view_get",
                          !.log = <<Ev("handleViewExpenses", <<>>, <<>>),
                                    Ev("getAggregatedExpenses", <<>>, <<>>)>>]
        ELSE IF route = "undo"
        THEN [base EXCEPT !.pc = "undo_get",
                          !.log = <<Ev("handleUndo", <<>>, <<>>),
                                    Ev("undoLastChange", <<>>, <<>>)>>]
        ELSE IF route \in {"organize", "organizeMonth"}
        THEN [base EXCEPT !.pc = "org_get",
                          !.date = IF route = "organize" THEN today ELSE <<>>,
                          !.yearMonth = OrganizeMonthMatch(Trim(message)),
                          !.log = <<Ev("handleOrganizeExpenses",
                                       OrganizeMonthMatch(Trim(message)), <<>>),
                                    Ev("getAggregatedExpenses", <<>>, <<>>)>>]
        ELSE [base EXCEPT !.pc = "ack_reply", !.items = items, !.date = today,
                          !.text = AckText(items)]

\* lines 97-147: the synchronous part of the handler up to its first await
Start(route, message, today) ==
    LET base == [Idle EXCEPT !.route = route, !.message = message, !.pre = Store]
        items == parseExpenseMessage(message).items
    IN  IF route = "view"
        THEN [base EXCEPT !.pc = "view_get",
                          !.log = <<Ev("handleViewExpenses", <<>>, <<>>),
                                    Ev("getAggregatedExpenses", <<>>, <<>>)>>]
        ELSE IF route = "undo"
        THEN [base EXCEPT !.pc = "undo_get",
                          !.log = <<Ev("handleUndo", <<>>, <<>>),
                                    Ev("undoLastChange", <<>>, <<>>)>>]
        ELSE IF route \in {"organize", "organizeMonth"}
        THEN [base EXCEPT !.pc = "org_get",
                          !.date = IF route = "organize" THEN today ELSE <<>>,
                          !.yearMonth = OrganizeMonthMatch(Trim(message)),
                          !.log = <<Ev("handleOrganizeExpenses",
                                       OrganizeMonthMatch(Trim(message)), <<>>),
                                    Ev("getAggregatedExpenses", <<>>, <<>>)>>]
        ELSE IF route = "ignore"
        THEN [base EXCEPT !.pc = "done"]
        ELSE [base EXCEPT !.pc = "ack_reply", !.items = items, !.date = today,
                          !.text = AckText(items)]

ReceiveFrom(p, messages) ==
    /\ proc[p].pc = "idle"
    /\ \E message \in messages, today \in StorageDates :
          LET route == Route(message)
          IN  /\ route = "expense" =>
                     TotalItems(ledger.entries)
                         + Len(parseExpenseMessage(message).items) <= MaxItems
              /\ proc' = [proc EXCEPT ![p] = Start(route, message, today)]
    /\ UNCHANGED <<ledger, backup, hist, lastAdd>>

Receive(p) == ReceiveFrom(p, Messages)

\* the organize commands only
ReceiveOrganize(p) == ReceiveFrom(p, {MsgOrganize, MsgOrganizeMonth})

\* lines 144-161: the acknowledgment; a reply that throws ends the handler in
\* the outer catch
AckReply(p) ==
    LET q == proc[p]
    IN  /\ q.pc = "ack_reply"
        /\ \/ proc' = [proc EXCEPT ![p] =
                          [q EXCEPT !.pc = "add_get",
                                    !.log = q.log \o <<Ev("reply", q.text, <<>>),
                                                      Ev("addExpenses", q.date, q.items)>>]]
           \/ proc' = [proc EXCEPT ![p] =
                          [q EXCEPT !.pc = "done",
                                    !.log = Append(q.log, Ev("replyFailed", q.text, <<>>))]]
        /\ UNCHANGED <<ledger, backup, hist, lastAdd>>

(***************************** addExpenses *********************************)
\* the item lists the parser yields for the messages
ItemLists == { parseExpenseMessage(m).items : m \in Messages } \ { <<>> }

\* lines 11-15: addExpenses(items, date) called directly, up to its first await
\* (calls that overlap are made on the same day; the history variables follow
\* the calls made by handleTextMessage only)
CallAdd(p) ==
    /\ proc[p].pc = "idle"
    /\ \E items \in ItemLists, date \in {Date1} :
          /\ TotalItems(ledger.entries) + Len(items) <= MaxItems
          /\ proc' = [proc EXCEPT ![p] =
                         [Idle EXCEPT !.pc = "add_get", !.route = "call",
                                      !.items = items, !.date = date,
                                      !.log = <<Ev("addExpenses", date, items)>>]]
    /\ UNCHANGED <<ledger, backup, hist, lastAdd>>

\* the other calls that have read the Ledger and not yet written it
ReadNotWritten(p) ==
    { o \in DOMAIN proc \ {p} : proc[o].pc \in {"add_backup", "add_set"} }

\* mutant: a failed save is reported to the chat
AddFailedReplies(p) ==
    /\ proc' = [proc EXCEPT ![p] =
                   [@ EXCEPT !.pc = "done",
                             !.log = Append(@, Ev("reply", <<"[save failed]">>, <<>>))]]
    /\ hist' = IF proc[p].route = "call" THEN hist
               ELSE Push(hist, Call("add", FALSE, TRUE, proc[p]))
    /\ lastAdd' = IF proc[p].route = "call" THEN lastAdd
                  ELSE [lastAdd EXCEPT !.called = TRUE]
    /\ UNCHANGED <<ledger, backup>>

\* mutant: the storage error leaves addExpenses and handleTextMessage
AddFailedThrows(p) ==
    /\ proc' = [proc EXCEPT ![p] = [@ EXCEPT !.pc = "done", !.threw = TRUE]]
    /\ UNCHANGED <<ledger, backup, hist, lastAdd>>

\* lines 54-60: the catch block; the call returns { success: false }
AddFailed(p) ==
    /\ proc' = [proc EXCEPT ![p] = [@ EXCEPT !.pc = "done"]]
    /\ hist' = IF proc[p].route = "call" THEN hist
               ELSE Push(hist, Call("add", FALSE, TRUE, proc[p]))
    /\ lastAdd' = IF proc[p].route = "call" THEN lastAdd
                  ELSE [lastAdd EXCEPT !.called = TRUE]
    /\ UNCHANGED <<ledger, backup>>

\* line 15: await docRef.get()
AddGet(p) ==
    LET q == proc[p]
    IN  /\ q.pc = "add_get"
        /\ \/ /\ proc' = [proc EXCEPT ![p] =
                             [q EXCEPT !.pc = "add_backup", !.data = CurrentData(ledger),
                                       !.overlap = ReadNotWritten(p),
                                       !.log = Append(q.log, Ev("ledgerRead", <<>>, <<>>))]]
              /\ UNCHANGED <<ledger, backup, hist, lastAdd>>
           \/ AddFailed(p)

\* lines 23-26: await backupRef.set(...)
AddBackup(p) ==
    LET q == proc[p]
    IN  /\ q.pc = "add_backup"
        /\ \/ /\ backup' = BackupOf(q)
              /\ proc' = [proc EXCEPT ![p] =
                             [q EXCEPT !.pc = "add_set",
                                       !.log = Append(q.log, Ev("backupWrite", <<>>, <<>>))]]
              /\ UNCHANGED <<ledger, hist, lastAdd>>
           \/ AddFailed(p)

\* lines 28-53: merge, await docRef.set(currentData), return { success: true }
AddSet(p) ==
    LET q == proc[p]
    IN  /\ q.pc = "add_set"
        /\ \/ /\ ledger' = UpdatedLedger(q.data, q.items, q.date)
              /\ proc' = [proc EXCEPT ![p] =
                             [q EXCEPT !.pc = "done",
                                       !.log = Append(q.log, Ev("ledgerWrite", <<>>, <<>>))]]
              /\ hist' = IF q.route = "call" THEN hist
                         ELSE Push(hist, Call("add", TRUE, FALSE, q))
              /\ lastAdd' = IF q.route = "call" THEN lastAdd
                            ELSE [called |-> TRUE, ok |-> TRUE,
                                  pre |-> q.pre.ledger.entries,
                                  items |-> q.items, date |-> q.date,
                                  undone |-> FALSE]
              /\ UNCHANGED backup
           \/ AddFailed(p)

(***************************** undoLastChange ******************************)
\* the call returns { success, message }; handleUndo then replies with message
UndoReturns(p, ok, err, message) ==
    /\ proc' = [proc EXCEPT ![p] = [@ EXCEPT !.pc = "reply", !.text = message]]
    /\ hist' = Push(hist, Call("undo", ok, err, proc[p]))
    /\ lastAdd' = IF ok THEN [lastAdd EXCEPT !.undone = TRUE] ELSE lastAdd

\* mutant: with no backup, the undo restores an empty Ledger and reports success
UndoGetRestoresEmpty(p) ==
    LET q == proc[p]
    IN  /\ q.pc = "undo_get"
        /\ \/ /\ backup.exists
              /\ proc' = [proc EXCEPT ![p] =
                             [q EXCEPT !.pc = "undo_set", !.data = backup,
                                       !.log = Append(q.log, Ev("backupRead", <<>>, <<>>))]]
              /\ UNCHANGED <<ledger, backup, hist, lastAdd>>
           \/ /\ ~backup.exists
              /\ ledger' = Doc(<<>>, {"lastUpdated"})
              /\ UndoReturns(p, TRUE, FALSE, TxtRestored)
              /\ UNCHANGED backup
           \/ /\ UndoReturns(p, FALSE, TRUE, TxtUndoFailed)
              /\ UNCHANGED <<ledger, backup>>

\* lines 99-106: await backupRef.get(); no backup returns 'nothing to restore'
UndoGet(p) ==
    LET q == proc[p]
    IN  /\ q.pc = "undo_get"
        /\ \/ /\ backup.exists
              /\ proc' = [proc EXCEPT ![p] =
                             [q EXCEPT !.pc = "undo_set", !.data = backup,
                                       !.log = Append(q.log, Ev("backupRead", <<>>, <<>>))]]
              /\ UNCHANGED <<ledger, backup, hist, lastAdd>>
           \/ /\ ~backup.exists
              /\ UndoReturns(p, FALSE, FALSE, TxtNoBackup)
              /\ UNCHANGED <<ledger, backup>>
           \/ /\ UndoReturns(p, FALSE, TRUE, TxtUndoFailed)
              /\ UNCHANGED <<ledger, backup>>

\* lines 109-119: await docRef.set(dataToRestore)
UndoSet(p) ==
    LET q == proc[p]
    IN  /\ q.pc = "undo_set"
        /\ \/ /\ ledger' = RestoredLedger(q.data)
              /\ backup' = BackupAfterUndo(backup)
              /\ UndoReturns(p, TRUE, FALSE, TxtRestored)
           \/ /\ UndoReturns(p, FALSE, TRUE, TxtUndoFailed)
              /\ UNCHANGED <<ledger, backup>>

(***************************** view and organize ***************************)
\* getAggregatedExpenses, lines 63-77: the Ledger or { entries: [] }; rethrows
getAggregatedExpenses == CurrentData(ledger)

\* handleViewExpenses, lines 165-196
ViewGet(p) ==
    LET q == proc[p]
    IN  /\ q.pc = "view_get"
        /\ \/ proc' = [proc EXCEPT ![p] =
                          [q EXCEPT !.pc = "reply", !.text = ViewText(getAggregatedExpenses)]]
           \/ proc' = [proc EXCEPT ![p] =
                          [q EXCEPT !.pc = "catch_reply", !.text = CatchText(q.route)]]
        /\ UNCHANGED <<ledger, backup, hist, lastAdd>>

\* mutant: the classifier is called also when the filter selected nothing
OrganizeAfterGetNoCheck(q, data) ==
    LET filteredEntries ==
            filterExpensesByMonth(data.entries, q.yearMonth, SubSeq(q.date, 1, 7))
    IN  IF Len(data.entries) = 0
        THEN [q EXCEPT !.pc = "reply", !.text = TxtNothingAtAll]
        ELSE [q EXCEPT !.pc = "org_classify", !.data = Doc(filteredEntries, {}),
                       !.log = Append(q.log, Ev("classify", <<>>, <<>>))]

\* handleOrganizeExpenses, lines 438-475: read, filter, the early replies
OrganizeAfterGet(q, data) ==
    LET filteredEntries ==
            filterExpensesByMonth(data.entries, q.yearMonth, SubSeq(q.date, 1, 7))
    IN  IF Len(data.entries) = 0
        THEN [q EXCEPT !.pc = "reply", !.text = TxtNothingAtAll]
        ELSE IF Len(filteredEntries) = 0
        THEN [q EXCEPT !.pc = "reply",
                       !.text = MonthText(q.yearMonth) \o <<TxtNothingInMonth>>]
        ELSE IF ~OpenAIConfigured
        THEN [q EXCEPT !.pc = "reply", !.text = <<"[OpenAI API shang wei she ding]">>]
        ELSE [q EXCEPT !.pc = "org_classify", !.data = Doc(filteredEntries, {}),
                       !.log = Append(q.log, Ev("classify", <<>>, <<>>))]

OrgGet(p) ==
    LET q == proc[p]
    IN  /\ q.pc = "org_get"
        /\ \/ proc' = [proc EXCEPT ![p] = OrganizeAfterGet(q, getAggregatedExpenses)]
           \/ proc' = [proc EXCEPT ![p] =
                          [q EXCEPT !.pc = "catch_reply", !.text = CatchText(q.route)]]
        /\ UNCHANGED <<ledger, backup, hist, lastAdd>>

\* the categories the classifier is asked to use (two of the eight)
Categories == {"[shui guo]", "[xian nai]"}

MaxReply == 3

\* the lists the classifier may return for n submitted items: entries in any
\* order, ids repeated or unknown (n + 1)
RECURSIVE ListsUpTo(_, _)
ListsUpTo(S, k) ==
    IF k = 0 THEN {<<>>}
    ELSE LET shorter == ListsUpTo(S, k - 1)
         IN  shorter \cup { Append(l, e) : l \in { x \in shorter : Len(x) = k - 1 }, e \in S }

Categorizations(n) ==
    ListsUpTo([id : 1..(n + 1), category : Categories], MaxReply)

\* the list the prompt asks for: every id once, in order
AskedCategorization(n) ==
    [i \in 1..n |-> [id |-> i,
                     category |-> IF i % 2 = 1 THEN "[shui guo]" ELSE "[xian nai]"]]

\* what the classifier call yields: the call throws ("throws"), the content
\* is no JSON ("text"), a JSON object without a list under categories or
\* items ("object"), or a list ("list")
AiResponse(kind, list) == [kind |-> kind, list |-> list]

AiResponses(n) ==
    {AiResponse("throws", <<>>), AiResponse("text", <<>>), AiResponse("object", <<>>)}
        \cup { AiResponse("list", l) : l \in Categorizations(n) }

\* organizeExpensesWithAI, lines 342-369 and 431-434: whether the call ends in
\* an exception
Throws(aiResponse) == aiResponse.kind \in {"throws", "text"}

\* line 365: Array.isArray(parsed) ? parsed : (parsed.categories || parsed.items || [])
Categorization(aiResponse) ==
    IF aiResponse.kind = "list" THEN aiResponse.list ELSE <<>>

\* lines 475-484: formatExpensesForAI, await organizeExpensesWithAI(formattedData)
OrgClassifyWith(p, aiResponses) ==
    LET q == proc[p]
        formattedData == formatExpensesForAI(q.data.entries, q.yearMonth, q.date)
    IN  /\ q.pc = "org_classify"
        /\ \E aiResponse \in aiResponses :
              LET log == Append(q.log, Ev("aiResponse", aiResponse.kind, <<>>))
                  categorization == Categorization(aiResponse)
                  r == organizeExpensesWithAI(formattedData, categorization)
              IN  IF Throws(aiResponse)
                  THEN proc' = [proc EXCEPT ![p] =
                                   [q EXCEPT !.pc = "catch_reply", !.log = log,
                                             !.text = CatchText(q.route)]]
                  ELSE proc' = [proc EXCEPT ![p] =
                                   [q EXCEPT !.pc = "reply", !.log = log,
                                             !.text = r.output,
                                             !.sent = formattedData.items,
                                             !.categorization = categorization,
                                             !.report = r.sortedCategories]]
        /\ UNCHANGED <<ledger, backup, hist, lastAdd>>

\* the classifier does what the prompt asks, or the call fails
OrgClassify(p) ==
    OrgClassifyWith(p, {AiResponse("list",
                                   AskedCategorization(TotalItems(proc[p].data.entries))),
                        AiResponse("throws", <<>>)})

\* the classifier returns anything
OrgClassifyAny(p) ==
    OrgClassifyWith(p, AiResponses(TotalItems(proc[p].data.entries)))

\* the reply inside the try block of handleViewExpenses / handleUndo /
\* handleOrganizeExpenses; a reply that throws enters the catch block
Reply(p) ==
    LET q == proc[p]
    IN  /\ q.pc = "reply"
        /\ \/ proc' = [proc EXCEPT ![p] =
                          [q EXCEPT !.pc = "done",
                                    !.log = Append(q.log, Ev("reply", q.text, <<>>))]]
           \/ proc' = [proc EXCEPT ![p] =
                          [q EXCEPT !.pc = "catch_reply", !.text = CatchText(q.route),
                                    !.log = Append(q.log, Ev("replyFailed", q.text, <<>>))]]
        /\ UNCHANGED <<ledger, backup, hist, lastAdd>>

\* the reply inside the catch block; if it throws too, the exception leaves
\* handleTextMessage
CatchReply(p) ==
    LET q == proc[p]
    IN  /\ q.pc = "catch_reply"
        /\ \/ proc' = [proc EXCEPT ![p] =
                          [q EXCEPT !.pc = "done",
                                    !.log = Append(q.log, Ev("reply", q.text, <<>>))]]
           \/ proc' = [proc EXCEPT ![p] =
                          [q EXCEPT !.pc = "done", !.threw = TRUE,
                                    !.log = Append(q.log, Ev("replyFailed", q.text, <<>>))]]
        /\ UNCHANGED <<ledger, backup, hist, lastAdd>>

\* webhookHandler, lines 72-85: 200 'OK' after the loop over the events, 500
\* from the catch block when handleTextMessage threw
PostResponse(q) ==
    IF q.threw THEN Response("POST", 500, "Internal Server Error")
    ELSE Response("POST", 200, "OK")

\* webhookHandler, line 72: await handleTextMessage(event) is over (a direct
\* call of addExpenses has no request to answer)
Return(p) ==
    /\ proc[p].pc = "done"
    /\ proc' = [proc EXCEPT ![p] =
                   [Idle EXCEPT !.res = IF proc[p].route = "call" THEN NoResponse
                                        ELSE PostResponse(proc[p])]]
    /\ UNCHANGED <<ledger, backup, hist, lastAdd>>

\* loadFromFile, lines 83-128: parse the file, stop when no entry was found,
\* else write { entries, lastUpdated } to the Ledger document; the script is
\* run while no request is in progress, and an error of the write is logged
loadFromFile(p) ==
    /\ proc[p].pc = "idle"
    /\ \E historicalData \in HistoricalTexts :
          LET entries == parseHistoricalData(historicalData)
          IN  /\ entries # <<>>
              /\ \/ ledger' = Doc(entries, {"lastUpdated"})
                 \/ UNCHANGED ledger
    /\ proc' = [proc EXCEPT ![p] = Idle]
    /\ hist' = <<>>
    /\ UNCHANGED <<backup, lastAdd>>

Methods == {"GET", "POST", "PUT"}

\* webhookHandler, lines 59-81, for a request that holds no text message: a
\* GET, a POST whose events are none or not text messages, another method
webhookHandler(p) ==
    /\ proc[p].pc = "idle"
    /\ \E method \in Methods :
          proc' = [proc EXCEPT ![p] =
                      [Idle EXCEPT !.res =
                          IF method = "GET"
                          THEN Response("GET", 200, "Family Expense Bot is running!")
                          ELSE IF method = "POST"
                          THEN Response("POST", 200, "OK")
                          ELSE Response(method, 405, "Method Not Allowed")]]
    /\ UNCHANGED <<ledger, backup, hist, lastAdd>>

(***************************** specifications ******************************)
Next ==
    \/ \E p \in DOMAIN proc : Receive(p)
    \/ \E p \in DOMAIN proc : AckReply(p)
    \/ \E p \in DOMAIN proc : AddGet(p)
    \/ \E p \in DOMAIN proc : AddBackup(p)
    \/ \E p \in DOMAIN proc : AddSet(p)
    \/ \E p \in DOMAIN proc : UndoGet(p)
    \/ \E p \in DOMAIN proc : UndoSet(p)
    \/ \E p \in DOMAIN proc : ViewGet(p)
    \/ \E p \in DOMAIN proc : OrgGet(p)
    \/ \E p \in DOMAIN proc : OrgClassify(p)
    \/ \E p \in DOMAIN proc : Reply(p)
    \/ \E p \in DOMAIN proc : CatchReply(p)
    \/ \E p \in DOMAIN proc : Return(p)
    \/ \E p \in DOMAIN proc : webhookHandler(p)

InitStore ==
    /\ ledger = Absent
    /\ backup = Absent
    /\ hist = <<>>
    /\ lastAdd = [called |-> FALSE, ok |-> FALSE, pre |-> <<>>, items |-> <<>>,
                  date |-> <<>>, undone |-> FALSE]

\* messages handled one at a time
Init == InitStore /\ proc = [p \in {1} |-> Idle]

Spec == Init /\ [][Next]_vars

\* the bot and the loader script on the same Ledger document
NextLoad ==
    \/ Next
    \/ \E p \in DOMAIN proc : loadFromFile(p)

SpecLoad == Init /\ [][NextLoad]_vars

\* organize requests on a store that earlier messages or the loader have filled
Saved(doc, items, date) ==
    [ ledger |-> UpdatedLedger(CurrentData(doc), items, date),
      backup |-> BackupOf([data |-> CurrentData(doc)]) ]

StoreA == Saved(Absent, parseExpenseMessage(MsgTwo).items, Date1)
StoreB == Saved(StoreA.ledger, parseExpenseMessage(MsgOne).items, Date3)
StoreC == Saved(StoreA.ledger, parseExpenseMessage(MsgOne).items, Date2)

\* two handlers around midnight: the message of the earlier day is saved last
StoreD ==
    Saved(Saved(Absent, parseExpenseMessage(MsgOne).items, Date3).ledger,
          parseExpenseMessage(MsgTwo).items, Date1)

\* loaded historical data, and an expense saved after it
StoreLoaded ==
    [ledger |-> Doc(parseHistoricalData(TextTwoDays), {"lastUpdated"}), backup |-> Absent]
StoreE == Saved(StoreLoaded.ledger, parseExpenseMessage(MsgOne).items, Date1)

OrganizeStores ==
    {[ledger |-> Absent, backup |-> Absent], StoreA, StoreB, StoreC, StoreD,
     StoreLoaded, StoreE}

InitOrganize ==
    /\ \E s \in OrganizeStores :
          /\ ledger = s.ledger
          /\ backup = s.backup
    /\ hist = <<>>
    /\ lastAdd = [called |-> FALSE, ok |-> FALSE, pre |-> <<>>, items |-> <<>>,
                  date |-> <<>>, undone |-> FALSE]
    /\ proc = [p \in {1} |-> Idle]

NextOrganize ==
    \/ \E p \in DOMAIN proc : ReceiveOrganize(p)
    \/ \E p \in DOMAIN proc : OrgGet(p)
    \/ \E p \in DOMAIN proc : OrgClassifyAny(p)
    \/ \E p \in DOMAIN proc : Reply(p)
    \/ \E p \in DOMAIN proc : CatchReply(p)
    \/ \E p \in DOMAIN proc : Return(p)

SpecOrganize == InitOrganize /\ [][NextOrganize]_vars

\* two callers of addExpenses running concurrently
InitConc == InitStore /\ proc = [p \in {1, 2} |-> Idle]

\* addExpenses calls only, their store operations interleaved
NextConc ==
    \/ \E p \in DOMAIN proc : CallAdd(p)
    \/ \E p \in DOMAIN proc : AddGet(p)
    \/ \E p \in DOMAIN proc : AddBackup(p)
    \/ \E p \in DOMAIN proc : AddSet(p)
    \/ \E p \in DOMAIN proc : Return(p)

SpecConc == InitConc /\ [][NextConc]_vars

(***************************** the parsers on their own *******************)
\* the characters and the lines the texts are made of
MaxLine  == 4
MaxLines == 4
Alphabet == {"a", SP, "0", "1", "/"}
CharLines == UNION { [1..n -> Alphabet] : n \in 0..MaxLine }

HistoricalLines ==
    { <<"1", "/", "1">>, <<"2", "/", "2">>, <<SP, "1", "/", "1", SP>>,
      <<"a", SP, "1">>, <<"b", SP, SP, "2", "0">>, <<"1", "2">>, <<"a">>, <<>> }

RECURSIVE Join(_)
Join(lines) ==
    IF lines = <<>> THEN <<>>
    ELSE IF Len(lines) = 1 THEN Head(lines)
    ELSE Head(lines) \o <<NL>> \o Join(Tail(lines))

\* one line; one line under a date header; some lines of a data file
ParseTexts ==
    CharLines
      \cup { <<"1", "/", "1", NL>> \o l : l \in CharLines }
      \cup { Join(ls) : ls \in UNION { [1..n -> HistoricalLines] : n \in 2..MaxLines } }

InitParse ==
    /\ InitStore
    /\ \E text \in ParseTexts : proc = [p \in {1} |-> [Idle EXCEPT !.message = text]]

\* parseExpenseMessage(message) in handleTextMessage, line 127
ParseMessage(p) ==
    LET q == proc[p]
    IN  /\ q.pc = "idle"
        /\ proc' = [proc EXCEPT ![p] =
                       [q EXCEPT !.pc = "parsed",
                                 !.items = parseExpenseMessage(q.message).items]]
        /\ UNCHANGED <<ledger, backup, hist, lastAdd>>

\* loadFromFile, lines 83-120, on the text drawn: the entries parsed, written
\* to the Ledger document when there are any
LoadText(p) ==
    LET q == proc[p]
        entries == parseHistoricalData(q.message)
    IN  /\ q.pc = "idle"
        /\ proc' = [proc EXCEPT ![p] =
                       [q EXCEPT !.pc = "loaded", !.data = Doc(entries, {})]]
        /\ ledger' = IF entries = <<>> THEN ledger ELSE Doc(entries, {"lastUpdated"})
        /\ UNCHANGED <<backup, hist, lastAdd>>

\* formatAggregatedText on the Ledger as getAggregatedExpenses returns it
FormatText(p) ==
    LET q == proc[p]
    IN  /\ q.pc = "loaded"
        /\ proc' = [proc EXCEPT ![p] =
                       [q EXCEPT !.pc = "formatted",
                                 !.text = formatAggregatedText(getAggregatedExpenses)]]
        /\ UNCHANGED <<ledger, backup, hist, lastAdd>>

\* parseHistoricalData on the text formatAggregatedText made
ParseAgain(p) ==
    LET q == proc[p]
    IN  /\ q.pc = "formatted"
        /\ proc' = [proc EXCEPT ![p] =
                       [q EXCEPT !.pc = "parsed_again",
                                 !.data = Doc(parseHistoricalData(q.text), {})]]
        /\ UNCHANGED <<ledger, backup, hist, lastAdd>>

NextParse ==
    \/ \E p \in DOMAIN proc : ParseMessage(p)
    \/ \E p \in DOMAIN proc : LoadText(p)
    \/ \E p \in DOMAIN proc : FormatText(p)
    \/ \E p \in DOMAIN proc : ParseAgain(p)

SpecParse == InitParse /\ [][NextParse]_vars

(***************************** a POST with several events ******************)
\* the number of text message events in req.body.events, and their texts
MaxEvents == 2
PostMessages == {MsgOne, MsgTwo, MsgUndo, MsgView, MsgChat}

\* slot p is the handling of events[p - 1]; no handleTextMessage has begun
InitPost ==
    /\ InitStore
    /\ \E events \in [1..MaxEvents -> PostMessages] :
          proc = [p \in 1..MaxEvents |-> [Idle EXCEPT !.message = events[p]]]

Started(q)    == q.route # "none"
Finished(q)   == q.pc \in {"done", "responded"}
InProgress(q) == Started(q) /\ ~Finished(q)
Responded     == \E p \in DOMAIN proc : proc[p].res # NoResponse

\* mutant: the loop calls handleTextMessage without awaiting the one before
HandleEventNoAwait(p) ==
    /\ ~Started(proc[p])
    /\ ~Responded
    /\ \A o \in 1..(p - 1) : Started(proc[o]) /\ ~proc[o].threw
    /\ \E today \in StorageDates :
          proc' = [proc EXCEPT ![p] =
                      Start(Route(proc[p].message), proc[p].message, today)]
    /\ UNCHANGED <<ledger, backup, hist, lastAdd>>

\* webhookHandler, lines 69-73: await handleTextMessage(event) for the next
\* event of the array, once the call for the event before it has returned
HandleEvent(p) ==
    /\ ~Started(proc[p])
    /\ ~Responded
    /\ \A o \in 1..(p - 1) : Finished(proc[o]) /\ ~proc[o].threw
    /\ \E today \in StorageDates :
          proc' = [proc EXCEPT ![p] =
                      Start(Route(proc[p].message), proc[p].message, today)]
    /\ UNCHANGED <<ledger, backup, hist, lastAdd>>

\* webhookHandler, lines 76 and 82-85: 200 'OK' after the loop, or 500 from
\* the catch block as soon as a handleTextMessage call has thrown
Respond(p) ==
    LET q == proc[p]
    IN  /\ q.pc = "done"
        /\ ~Responded
        /\ q.threw \/ p = MaxEvents
        /\ proc' = [proc EXCEPT ![p] =
                       [q EXCEPT !.pc = "responded", !.res = PostResponse(q)]]
        /\ UNCHANGED <<ledger, backup, hist, lastAdd>>

NextPost ==
    \/ \E p \in DOMAIN proc : HandleEvent(p)
    \/ \E p \in DOMAIN proc : AckReply(p)
    \/ \E p \in DOMAIN proc : AddGet(p)
    \/ \E p \in DOMAIN proc : AddBackup(p)
    \/ \E p \in DOMAIN proc : AddSet(p)
    \/ \E p \in DOMAIN proc : UndoGet(p)
    \/ \E p \in DOMAIN proc : UndoSet(p)
    \/ \E p \in DOMAIN proc : ViewGet(p)
    \/ \E p \in DOMAIN proc : Reply(p)
    \/ \E p \in DOMAIN proc : CatchReply(p)
    \/ \E p \in DOMAIN proc : Respond(p)

SpecPost == InitPost /\ [][NextPost]_vars

(***************************** properties **********************************)
\* the handler of the one-at-a-time specification
H == proc[1]

Last(h) == h[Len(h)]

OkCall(r, op) == r.op = op /\ r.ok

\* addExpenses returned { success: true } in this handler
AddSucceeded(q) ==
    /\ q.pc = "done"
    /\ q.log # <<>>
    /\ Last(q.log).e = "ledgerWrite"

\* the last two completed calls were a successful add and then a restoring undo
AddThenUndo ==
    /\ Len(hist) >= 2
    /\ OkCall(hist[Len(hist) - 1], "add")
    /\ OkCall(Last(hist), "undo")

\* C1: after a successful addExpenses(xs, d) called on Ledger L (absent or not)
\* and an undoLastChange that restores right after it, the Ledger's entries
\* are exactly the entries of L.
C1_UndoRestoresPreAdd ==
    AddThenUndo => /\ ledger.exists
                   /\ ledger.entries = hist[Len(hist) - 1].pre

\* C1 witness: an add onto a non-empty Ledger was undone
C1_Witness ==
    /\ AddThenUndo
    /\ hist[Len(hist) - 1].pre # <<>>
    /\ ledger.entries = hist[Len(hist) - 1].pre

\* C2 (as stated): between calls, the Backup is absent if addExpenses was never
\* called, and once a call has returned success:true its entries are the
\* Ledger's entries from just before the most recent such call.
NoCallInFlight == H.pc \in {"idle", "done", "reply", "catch_reply"}

C2_BackupIsPreOfLastSuccessfulAdd ==
    NoCallInFlight =>
        /\ ~lastAdd.called => ~backup.exists
        /\ lastAdd.ok => backup.exists /\ backup.entries = lastAdd.pre

\* C3: undo is single-level.  After two successful adds (L0 -> L1 -> L2) and
\* one undo the Ledger's entries are those of L1 and not those of L0; and an
\* undo that follows an undo leaves the entries as they are.
TwoAddsThenUndo ==
    /\ Len(hist) = 3
    /\ OkCall(hist[1], "add")
    /\ OkCall(hist[2], "add")
    /\ OkCall(hist[3], "undo")

UndoAfterUndoKeepsEntries ==
    ( /\ hist # <<>>
      /\ OkCall(Last(hist), "undo")
      /\ H.pc = "undo_set"
      /\ H'.pc = "reply"
      /\ OkCall(Last(hist'), "undo") ) => ledger'.entries = ledger.entries

C3_UndoIsSingleLevel ==
    /\ [](TwoAddsThenUndo => /\ ledger.entries = hist[2].pre
                             /\ ledger.entries # hist[1].pre)
    /\ [][UndoAfterUndoKeepsEntries]_vars

C3_Witness == TwoAddsThenUndo /\ hist[1].pre # <<>>

\* C4: with a Backup stored, two undoLastChange calls in a row (no store
\* error, no addExpenses between them) both return success:true and the
\* Ledger's entries after the second equal those after the first.
TwoUndos ==
    /\ Len(hist) >= 2
    /\ hist[Len(hist) - 1].op = "undo"
    /\ Last(hist).op = "undo"
    /\ hist[Len(hist) - 1].hadBackup
    /\ ~hist[Len(hist) - 1].err
    /\ ~Last(hist).err

C4_UndoIsIdempotent ==
    TwoUndos => /\ hist[Len(hist) - 1].ok
                /\ Last(hist).ok
                /\ ledger.entries = Last(hist).pre

C4_Witness == TwoUndos /\ Last(hist).ok /\ ledger.entries # <<>>

\* C5: a successful addExpenses(xs, d) either appends xs to the items of the
\* entry whose date is d, every other entry and the order of entries
\* unchanged, or, when no entry has date d, appends the entry {d, xs} last.
C5_AddMergesOrAppends ==
    (H.route = "expense" /\ AddSucceeded(H)) =>
        LET old == H.pre.ledger.entries
            new == ledger.entries
        IN  IF \E i \in 1..Len(old) : old[i].date = H.date
            THEN /\ Len(new) = Len(old)
                 /\ \A i \in 1..Len(old) :
                       /\ new[i].date = old[i].date
                       /\ new[i].items = IF old[i].date = H.date
                                         THEN old[i].items \o H.items
                                         ELSE old[i].items
            ELSE /\ Len(new) = Len(old) + 1
                 /\ SubSeq(new, 1, Len(old)) = old
                 /\ new[Len(new)] = [date |-> H.date, items |-> H.items]

\* C5 witness: an item was merged into the first of two entries
C5_Witness ==
    /\ H.route = "expense"
    /\ AddSucceeded(H)
    /\ Len(H.pre.ledger.entries) = 2
    /\ H.pre.ledger.entries[1].date = H.date
    /\ ledger.entries[1].items = H.pre.ledger.entries[1].items \o H.items

\* C6: two addExpenses calls that both read the same Ledger before either of
\* them wrote it, and both returned success:true, leave a Ledger that holds
\* that snapshot merged with the items of only one of them.
BothReadBeforeWrite(p, o) ==
    /\ p # o
    /\ AddSucceeded(proc[p])
    /\ AddSucceeded(proc[o])
    /\ o \in proc[p].overlap
    /\ proc[p].data = proc[o].data

C6_RaceLosesOneAppend ==
    \A p, o \in DOMAIN proc :
        BothReadBeforeWrite(p, o) =>
            /\ \E w \in {p, o} :
                  ledger.entries =
                      MergeItems(proc[w].data.entries, proc[w].items, proc[w].date)
            /\ TotalItems(ledger.entries)
                   < TotalItems(proc[p].data.entries)
                         + Len(proc[p].items) + Len(proc[o].items)

\* C6 witness: both calls returned success and the Ledger holds one item
\* although two were appended
C6_Witness ==
    /\ BothReadBeforeWrite(1, 2)
    /\ Len(proc[1].items) = 1
    /\ Len(proc[2].items) = 1
    /\ TotalItems(ledger.entries) = TotalItems(proc[1].data.entries) + 1

\* the events of a handler's log, by kind
Events(q, kinds) == { i \in 1..Len(q.log) : q.log[i].e \in kinds }

\* C7: for an expense message the acknowledgment is sent before any write
\* to Backup or Ledger, its text states the count and total of the parsed
\* items whatever addExpenses then returns, and no other reply is sent.
C7_AckBeforeWritesAndOnce ==
    H.route = "expense" =>
        LET parsed == parseExpenseMessage(H.message)
            ack == <<TxtRecorded, SP>> \o ToDigits(Len(parsed.items))
                       \o <<SP, TxtItemsTotal>> \o ToDigits(parsed.total)
        IN  /\ \A i \in Events(H, {"reply"}) : H.log[i].arg = ack
            /\ Cardinality(Events(H, {"reply"})) <= 1
            /\ \A i \in Events(H, {"addExpenses", "ledgerRead", "backupWrite", "ledgerWrite"}) :
                  \E j \in Events(H, {"reply"}) : j < i

\* C7 witness: the Ledger write failed after the Backup write; one reply, the
\* acknowledgment, was sent
C7_Witness ==
    /\ H.route = "expense"
    /\ H.pc = "done"
    /\ hist # <<>>
    /\ Last(hist).op = "add"
    /\ ~Last(hist).ok
    /\ Events(H, {"backupWrite"}) # {}
    /\ Cardinality(Events(H, {"reply"})) = 1

\* C8 (as stated): every handled expense message calls addExpenses exactly
\* once, with the parsed items and the storage date, also when the
\* acknowledgment reply fails.
C8_AddCalledExactlyOnce ==
    (H.route = "expense" /\ H.pc = "done") =>
        /\ Cardinality(Events(H, {"addExpenses"})) = 1
        /\ \A i \in Events(H, {"addExpenses"}) :
              /\ H.log[i].items = parseExpenseMessage(H.message).items
              /\ H.log[i].arg = H.date

\* C9: a message that is no command and has no expense line is ignored: no
\* reply, no store access, Ledger and Backup as they were.
ChatterMessages == {MsgChat, MsgZeroPrice, MsgOnlyDigits}

C9_ChatterIsIgnored ==
    H.message \in ChatterMessages =>
        /\ H.pc = "done"
        /\ H.log = <<>>
        /\ ledger = H.pre.ledger
        /\ backup = H.pre.backup

C9_Witness ==
    /\ H.message = MsgZeroPrice
    /\ H.pc = "done"
    /\ H.log = <<>>
    /\ ledger.entries # <<>>

\* C10: the four command forms go to view, undo, organize (current month) and
\* organize (that month); none is acknowledged as an expense and none
\* reaches addExpenses.
RoutedTo(q) ==
    IF q.message = MsgView THEN Ev("handleViewExpenses", <<>>, <<>>)
    ELSE IF q.message = MsgUndo THEN Ev("handleUndo", <<>>, <<>>)
    ELSE IF q.message = MsgOrganize THEN Ev("handleOrganizeExpenses", <<>>, <<>>)
    ELSE Ev("handleOrganizeExpenses", <<"2", "0", "2", "4", "0", "8">>, <<>>)

C10_CommandsAreNeverExpenses ==
    H.message \in {MsgView, MsgUndo, MsgOrganize, MsgOrganizeMonth} =>
        /\ H.log # <<>>
        /\ H.log[1] = RoutedTo(H)
        /\ Events(H, {"addExpenses", "ledgerRead", "backupWrite", "ledgerWrite"}) = {}
        /\ \A i \in Events(H, {"reply", "replyFailed"}) : Head(H.log[i].arg) # TxtRecorded

\* C10 witness: "整理202408" has an expense line, and was answered by organize
C10_Witness ==
    /\ H.message = MsgOrganizeMonth
    /\ H.pc = "done"
    /\ Len(parseExpenseMessage(H.message).items) = 1
    /\ Events(H, {"reply"}) # {}

\* the handler in progress is handleUndo and its undoLastChange has returned
UndoReturned ==
    /\ H.route = "undo"
    /\ H.pc \in {"reply", "catch_reply", "done"}
    /\ hist # <<>>
    /\ Last(hist).op = "undo"

\* C11: when the read of Backup finds no document, undoLastChange returns
\* success:false with the 'nothing to restore' message, the Ledger is as it
\* was and the Backup is still absent.
C11_UndoWithoutBackup ==
    (UndoReturned /\ ~H.pre.backup.exists /\ ~Last(hist).err) =>
        /\ ~Last(hist).ok
        /\ (H.pc = "reply" => H.text = TxtNoBackup)
        /\ (Len(H.log) >= 3 => H.log[3].arg = TxtNoBackup)
        /\ ledger = H.pre.ledger
        /\ backup = Absent

\* C11 witness: the user was told there is nothing to restore
C11_Witness ==
    /\ UndoReturned
    /\ ~H.pre.backup.exists
    /\ ~Last(hist).err
    /\ H.pc = "done"
    /\ H.log[3] = Ev("reply", TxtNoBackup, <<>>)

\* C12: undoLastChange leaves the Backup document as it was in every outcome
\* (restored, no backup, storage error), and the Ledger it restores carries
\* lastUpdated but not backupTime.
C12_UndoLeavesBackup ==
    UndoReturned =>
        /\ backup = H.pre.backup
        /\ Last(hist).ok =>
              /\ "backupTime" \notin ledger.fields
              /\ "lastUpdated" \in ledger.fields
              /\ ledger.entries = backup.entries

\* C12 witness: a restore from a backup that carries backupTime
C12_Witness ==
    /\ UndoReturned
    /\ Last(hist).ok
    /\ "backupTime" \in backup.fields
    /\ backup.entries # <<>>
    /\ H.pc = "done"

\* the expense handler has called addExpenses and is over
AddReturned ==
    /\ H.route = "expense"
    /\ H.pc = "done"
    /\ Events(H, {"addExpenses"}) # {}

\* C13: addExpenses does not raise: a failed Ledger read, Backup write or
\* Ledger write makes it return success:false, and the handling of the
\* message ends without an exception.
C13_AddNeverRaises ==
    /\ H.route = "expense" => ~H.threw
    /\ AddReturned =>
          /\ hist # <<>>
          /\ Last(hist).op = "add"
          /\ Last(hist).ok = ~Last(hist).err
          /\ Last(hist).ok = AddSucceeded(H)

\* C13 witness: the Ledger read failed and the handler is over
C13_Witness ==
    /\ AddReturned
    /\ Last(hist).err
    /\ Events(H, {"ledgerRead"}) = {}
    /\ ~H.threw

\* C14 (as stated): a GET is answered 200 with the liveness text, another
\* method 405, and a POST 200 'OK' whatever happened to its event, a failing
\* reply channel included.
C14_PostIsAnswered200 ==
    H.pc = "idle" =>
        /\ H.res.method = "GET" =>
              H.res = Response("GET", 200, "Family Expense Bot is running!")
        /\ H.res.method = "PUT" => H.res.status = 405
        /\ H.res.method = "POST" => H.res = Response("POST", 200, "OK")

\* C15 (as stated): no two entries of the Ledger have the same date, whether
\* the Ledger was written by addExpenses, by undoLastChange or by the loader.
C15_OneEntryPerDate ==
    \A i, j \in 1..Len(ledger.entries) :
        ledger.entries[i].date = ledger.entries[j].date => i = j

\* in the view text, a header line for the date is followed, before the next
\* header line, by the lines '<name> <price>' of xs in their order
ShowsUnderDate(text, date, xs) ==
    LET lines == SplitLines(text)
    IN  \E h \in 1..Len(lines), k \in 1..Len(lines) :
            /\ lines[h] = FormatMD(date)
            /\ h < k
            /\ k + Len(xs) - 1 <= Len(lines)
            /\ \A i \in 1..Len(xs) :
                  lines[k + i - 1] = xs[i].name \o <<SP>> \o ToDigits(xs[i].price)
            /\ \A i \in (h + 1)..(k + Len(xs) - 1) : ~IsDateLine(lines[i])

\* C16: once an expense message with items xs was saved, a later view (one
\* whose read of the Ledger succeeds) with no undo in between shows, under the header of the day of the message, the
\* lines of xs in message order; and the acknowledgment of the message states
\* the number of items of xs and the sum of their prices.
C16_SavedItemsAreShown ==
    /\ (H.route = "view" /\ lastAdd.ok /\ ~lastAdd.undone) =>
          /\ H.pc = "reply" => ShowsUnderDate(H.text, lastAdd.date, lastAdd.items)
          /\ (Len(H.log) >= 3 /\ H.log[3].e = "reply" /\ H.log[3].arg # TxtViewFailed) =>
                ShowsUnderDate(H.log[3].arg, lastAdd.date, lastAdd.items)
    /\ AddSucceeded(H) =>
          \E i \in Events(H, {"reply"}) :
              H.log[i].arg = <<TxtRecorded, SP>> \o ToDigits(Len(lastAdd.items))
                                 \o <<SP, TxtItemsTotal>>
                                 \o ToDigits(SumPrices(lastAdd.items))

\* C16 witness: the view shows the two items of the last message under a date
\* that already had an item
C16_Witness ==
    /\ H.route = "view"
    /\ H.pc = "done"
    /\ lastAdd.ok
    /\ ~lastAdd.undone
    /\ Len(lastAdd.items) = 2
    /\ lastAdd.pre # <<>>
    /\ H.log[3].e = "reply"
    /\ ShowsUnderDate(H.log[3].arg, lastAdd.date, lastAdd.items)

\* the organize handler in progress has rendered a report from the list
\* H.categorization for the submitted items H.sent
Rendered == H.sent # <<>>

\* where the item with this id stands in the blocks of the report
PlacesOf(id) ==
    { <<b, j>> \in (1..Len(H.report)) \X (1..Len(H.sent)) :
          j <= Len(H.report[b].items) /\ H.report[b].items[j].id = id }

\* how often the classifier's list names this id
TimesNamed(id) ==
    Cardinality({ k \in 1..Len(H.categorization) : H.categorization[k].id = id })

RECURSIVE SumTotals(_)
SumTotals(blocks) ==
    IF blocks = <<>> THEN 0 ELSE Head(blocks).total + SumTotals(Tail(blocks))

\* C17: when the classifier's list names every submitted id exactly once, every
\* submitted item stands in exactly one category block, each category total
\* is the sum of the prices of its block, and the category totals add up to
\* the overall total.
C17_CompleteListGivesExactReport ==
    (Rendered /\ \A id \in 1..Len(H.sent) : TimesNamed(id) = 1) =>
        /\ \A id \in 1..Len(H.sent) :
              /\ Cardinality(PlacesOf(id)) = 1
              /\ \A pl \in PlacesOf(id) : H.report[pl[1]].items[pl[2]] = H.sent[id]
        /\ \A b \in 1..Len(H.report) :
              H.report[b].total = SumPrices(H.report[b].items)
        /\ SumTotals(H.report) = SumPrices(H.sent)

\* C17 witness: three items in two categories
C17_Witness ==
    /\ Rendered
    /\ Len(H.sent) = 3
    /\ \A id \in 1..3 : TimesNamed(id) = 1
    /\ Len(H.report) = 2
    /\ H.pc = "done"
    /\ H.log[Len(H.log)].e = "reply"

\* C18 (as stated): whatever list the classifier returns, a list that repeats
\* an id included, no submitted item stands more than once in the blocks of
\* the report.
C18_NoItemTwice ==
    Rendered => \A id \in 1..Len(H.sent) : Cardinality(PlacesOf(id)) <= 1

\* the entries of the classifier's list whose id is one of the submitted ids
Resolvable ==
    { k \in 1..Len(H.categorization) : H.categorization[k].id \in 1..Len(H.sent) }

RECURSIVE SumLengths(_)
SumLengths(blocks) ==
    IF blocks = <<>> THEN 0 ELSE Len(Head(blocks).items) + SumLengths(Tail(blocks))

\* C19: an id of the list that is no submitted id adds nothing to any block
\* or total; an item whose id is not in the list stands in no block; every
\* block holds only submitted items that the list puts in its category, and
\* its total is the sum of their prices; the report is rendered all the same.
C19_ReconciliationIsExact ==
    Rendered =>
        /\ SumLengths(H.report) = Cardinality(Resolvable)
        /\ \A id \in 1..Len(H.sent) : TimesNamed(id) = 0 => PlacesOf(id) = {}
        /\ \A b \in 1..Len(H.report) :
              /\ H.report[b].total = SumPrices(H.report[b].items)
              /\ \A j \in 1..Len(H.report[b].items) :
                    LET item == H.report[b].items[j]
                    IN  /\ item.id \in 1..Len(H.sent)
                        /\ item = H.sent[item.id]
                        /\ \E k \in Resolvable :
                              H.categorization[k] =
                                  [id |-> item.id, category |-> H.report[b].category]
        /\ H.pc = "reply" => Head(H.text) = "[zong gong]"

\* C19 witness: of two submitted items one is not in the list, which names an
\* unknown id twice and is longer than the submitted count; the report was
\* sent
C19_Witness ==
    /\ Rendered
    /\ Len(H.sent) = 2
    /\ TimesNamed(2) = 0
    /\ TimesNamed(3) = 2
    /\ TimesNamed(1) = 1
    /\ Len(H.categorization) # Len(H.sent)
    /\ H.pc = "done"
    /\ H.log[Len(H.log)] = Ev("reply", Output(
           [items |-> H.sent, totalAmount |-> SumPrices(H.sent),
            monthText |-> <<"2", "0", "2", "4", "nian", "8", "yue">>], H.report), <<>>)

\* the month and day of a display date M/D, as one number
MonthDay(d) ==
    LET k == CHOOSE i \in 1..Len(d) : d[i] = "/"
    IN  100 * ParseInt(SubSeq(d, 1, k - 1)) + ParseInt(SubSeq(d, k + 1, Len(d)))

\* C20 (as stated): whatever list the classifier returns and in whatever order,
\* the blocks of the report stand in non-increasing order of their totals,
\* the ranking at the end lists the same categories in the same order, and
\* the items of each block stand in ascending order of date.
C20_ReportOrder ==
    Rendered =>
        /\ \A b \in 1..(Len(H.report) - 1) : H.report[b].total >= H.report[b + 1].total
        /\ H.pc = "reply" =>
              LET lines == SplitLines(H.text)
                  first == Len(lines) - 1 - Len(H.report)
              IN  \A b \in 1..Len(H.report) :
                      lines[first + b] = <<H.report[b].category, SP>>
                                              \o ToDigits(H.report[b].total)
        /\ \A b \in 1..Len(H.report) :
              \A i, j \in 1..Len(H.report[b].items) :
                  i < j => MonthDay(H.report[b].items[i].date)
                               <= MonthDay(H.report[b].items[j].date)

\* C20, the part about the categories only
C20_CategoriesOrdered ==
    Rendered =>
        /\ \A b \in 1..(Len(H.report) - 1) : H.report[b].total >= H.report[b + 1].total
        /\ H.pc = "reply" =>
              LET lines == SplitLines(H.text)
                  first == Len(lines) - 1 - Len(H.report)
              IN  \A b \in 1..Len(H.report) :
                      lines[first + b] = <<H.report[b].category, SP>>
                                              \o ToDigits(H.report[b].total)

\* the organize handler in progress, and what its classifier call yielded
Organizing == H.route \in {"organize", "organizeMonth"}

AiResponseKinds == { H.log[i].arg : i \in Events(H, {"aiResponse"}) }

\* the replies the handler tried to send, delivered or not
Attempts(q) == Events(q, {"reply", "replyFailed"})

\* C21 (as stated): when the classifier call fails or its output is no
\* id-to-category list, the request ends with one reply, the failure text,
\* and no report, not even an empty one; the classifier is called once, and
\* Ledger and Backup stay as they were.
C21_NoListNoReport ==
    (Organizing /\ AiResponseKinds \cap {"throws", "text", "object"} # {}) =>
        /\ H.pc # "reply"
        /\ \A i \in Attempts(H) : H.log[i].arg = TxtOrganizeFailed
        /\ H.pc = "done" => Cardinality(Attempts(H)) = 1
        /\ Cardinality(Events(H, {"classify"})) = 1
        /\ Cardinality(Events(H, {"aiResponse"})) = 1
        /\ ledger = H.pre.ledger
        /\ backup = H.pre.backup

\* C21, for a call that throws or returns text that is no JSON
C21_FailedCallNoReport ==
    (Organizing /\ AiResponseKinds \cap {"throws", "text"} # {}) =>
        /\ H.pc # "reply"
        /\ \A i \in Attempts(H) : H.log[i].arg = TxtOrganizeFailed
        /\ H.pc = "done" => Cardinality(Attempts(H)) = 1
        /\ Cardinality(Events(H, {"classify"})) = 1
        /\ Cardinality(Events(H, {"aiResponse"})) = 1
        /\ ledger = H.pre.ledger
        /\ backup = H.pre.backup

\* the month an organize request is about, as YYYY-MM
MonthPrefix(q) ==
    IF q.yearMonth # <<>>
    THEN SubSeq(q.yearMonth, 1, 4) \o <<"-">> \o SubSeq(q.yearMonth, 5, 6)
    ELSE SubSeq(q.date, 1, 7)

\* no entry of the Ledger, as the request found it, is of that month
NothingSelected(q) ==
    \A i \in 1..Len(q.pre.ledger.entries) :
        LET d == q.pre.ledger.entries[i].date
        IN  Len(d) < 7 \/ SubSeq(d, 1, 7) # MonthPrefix(q)

\* C22: when no entry is of the month asked for (the Ledger may be empty or
\* hold legacy dates only), organize replies that there is nothing to
\* organize, which is not the failure text, and does not call the classifier.
C22_NothingToOrganize ==
    (Organizing /\ NothingSelected(H)) =>
        /\ Events(H, {"classify", "aiResponse"}) = {}
        /\ H.pc \notin {"org_classify"}
        /\ H.pc = "reply" =>
              /\ H.text \in {TxtNothingAtAll, <<"ben yue", TxtNothingInMonth>>,
                             <<"2", "0", "2", "4", "nian", "8", "yue", TxtNothingInMonth>>}
              /\ H.text # TxtOrganizeFailed

\* C22 witness: the Ledger holds legacy dates only and the reply was sent
C22_Witness ==
    /\ Organizing
    /\ NothingSelected(H)
    /\ H.pre.ledger.entries # <<>>
    /\ H.pc = "done"
    /\ H.log[Len(H.log)] = Ev("reply", <<"ben yue", TxtNothingInMonth>>, <<>>)
    /\ \A i \in 1..Len(ledger.entries) : ~Includes(ledger.entries[i].date, "-")

\* the month selectors the filter is examined with
Selectors ==
    { <<"2", "0", "2", "4", "0", "8">>, <<"2", "0", "2", "4", "0", "9">>,
      <<"2", "0", "2", "4", "1", "0">>, <<"2", "0", "2", "5", "0", "8">> }

\* 'YYYY-MM' of a selector, and the selector of a 'YYYY-MM'
Dashed(yearMonth) == SubSeq(yearMonth, 1, 4) \o <<"-">> \o SubSeq(yearMonth, 5, 6)
Undashed(month)   == SubSeq(month, 1, 4) \o SubSeq(month, 6, 7)

\* the positions of the entries whose date begins with the seven characters
OfMonth(entries, month) ==
    {i \in 1..Len(entries) :
        /\ Len(entries[i].date) >= 7
        /\ \A k \in 1..7 : entries[i].date[k] = month[k]}

\* s is the subsequence of entries at exactly the positions in set
RECURSIVE IsSubSeqAt(_, _, _)
IsSubSeqAt(s, entries, set) ==
    IF set = {}
    THEN s = <<>>
    ELSE LET i == CHOOSE x \in set : \A y \in set : x <= y
         IN  /\ s # <<>>
             /\ Head(s) = entries[i]
             /\ IsSubSeqAt(Tail(s), entries, set \ {i})

\* C23: the month filter returns exactly the entries whose date starts with
\* 'YYYY-MM', in stored order; without a selector it returns what the
\* selector of the current month returns; a legacy M/D entry is never
\* selected.  Stated for the filter as a request applies it and, for every
\* selector, on the Ledger the store holds.
C23_MonthFilter ==
    /\ (Organizing /\ H.pc = "org_classify") =>
          IsSubSeqAt(H.data.entries, H.pre.ledger.entries,
                     OfMonth(H.pre.ledger.entries, MonthPrefix(H)))
    /\ \A today \in StorageDates \cup {Date3} :
          LET currentMonth == SubSeq(today, 1, 7)
          IN  /\ filterExpensesByMonth(ledger.entries, <<>>, currentMonth)
                   = filterExpensesByMonth(ledger.entries, Undashed(currentMonth),
                                           currentMonth)
              /\ \A yearMonth \in Selectors \cup {<<>>} :
                    LET r == filterExpensesByMonth(ledger.entries, yearMonth, currentMonth)
                    IN  /\ yearMonth # <<>> =>
                              IsSubSeqAt(r, ledger.entries,
                                         OfMonth(ledger.entries, Dashed(yearMonth)))
                        /\ \A i \in 1..Len(r) : Includes(r[i].date, "-")

\* C23 witness: a request for 2024-08 on a Ledger of two legacy entries and
\* one entry of that month got the one entry
C23_Witness ==
    /\ Organizing
    /\ H.pc = "org_classify"
    /\ H.yearMonth # <<>>
    /\ Len(H.pre.ledger.entries) = 3
    /\ \E i \in 1..3 : ~Includes(H.pre.ledger.entries[i].date, "-")
    /\ Len(H.data.entries) = 1

\* C23 witness of the stored order: both entries of a Ledger whose later date
\* is stored first were selected
C23_WitnessOrder ==
    /\ Organizing
    /\ H.pc = "org_classify"
    /\ Len(H.data.entries) = 2
    /\ StrLess(H.data.entries[2].date, H.data.entries[1].date)

\* the reference rule of the line parser, written on positions
Strip(s) ==
    LET ns == {i \in 1..Len(s) : ~IsSpace(s[i])}
    IN  IF ns = {} THEN <<>>
        ELSE SubSeq(s, CHOOSE i \in ns : \A j \in ns : i <= j,
                       CHOOSE i \in ns : \A j \in ns : j <= i)

RECURSIVE ValueFrom(_, _)
ValueFrom(ds, acc) ==
    IF ds = <<>> THEN acc ELSE ValueFrom(Tail(ds), 10 * acc + DigitVal(Head(ds)))

\* the positions where a run of digits that reaches the end of t starts and
\* is not preceded by a digit: none or one
RunStarts(t) ==
    {k \in 1..Len(t) :
        /\ \A i \in k..Len(t) : IsDigit(t[i])
        /\ k = 1 \/ ~IsDigit(t[k - 1])}

RuleItem(line) ==
    LET t == Strip(line)
    IN  IF RunStarts(t) = {} THEN <<>>
        ELSE LET k == CHOOSE x \in RunStarts(t) : TRUE
                 value == ValueFrom(SubSeq(t, k, Len(t)), 0)
                 rest  == Strip(SubSeq(t, 1, k - 1))
             IN  IF value > 0 /\ rest # <<>>
                 THEN <<[name |-> rest, price |-> value]>>
                 ELSE <<>>

RECURSIVE RuleItems(_)
RuleItems(lines) ==
    IF lines = <<>> THEN <<>> ELSE RuleItem(Head(lines)) \o RuleItems(Tail(lines))

\* C24: the line parser yields an item exactly for a line that, trimmed, ends
\* in a maximal run of digits of positive value after a non-empty remainder;
\* the price is the value, the name the stripped remainder with its inner
\* whitespace; any other line yields no item.  For a message of several lines
\* the items are those of its lines, in order.
C24_LineParserRule ==
    H.pc = "parsed" => H.items = RuleItems(SplitLines(H.message))

\* C24 witness: a line whose name has inner whitespace was parsed
C24_Witness ==
    /\ H.pc = "parsed"
    /\ H.message = <<"a", SP, "a", "1">>
    /\ H.items = <<[name |-> <<"a", SP, "a">>, price |-> 1]>>

\* C24 witness of the other case: a line of digits only gave no item
C24_WitnessNoItem ==
    /\ H.pc = "parsed"
    /\ H.message = <<SP, "1", "0">>
    /\ H.items = <<>>

\* the (name, price) items a sequence of entries holds under a date, in order
RECURSIVE ItemsUnder(_, _)
ItemsUnder(entries, date) ==
    IF entries = <<>> THEN <<>>
    ELSE (IF Head(entries).date = date THEN Head(entries).items ELSE <<>>)
             \o ItemsUnder(Tail(entries), date)

DatesOf(entries) == {entries[i].date : i \in 1..Len(entries)}

\* a date in the D/D form of a header
HeaderForm(date) == IsDateLine(date)

\* every item has a non-empty trimmed name and a price > 0
ItemModel(entries) ==
    \A i \in 1..Len(entries) : \A j \in 1..Len(entries[i].items) :
        LET item == entries[i].items[j]
        IN  item.name # <<>> /\ Trim(item.name) = item.name /\ item.price > 0

\* C25: the text formatAggregatedText makes of a Ledger whose dates are all
\* D/D headers, parsed again by parseHistoricalData, holds under each date
\* the items the Ledger holds under it, and no other date.
C25_RenderParseRoundTrip ==
    LET entries == CurrentData(ledger).entries
    IN  (/\ H.pc = "parsed_again"
         /\ \A d \in DatesOf(entries) : HeaderForm(d)
         /\ ItemModel(entries)) =>
            /\ DatesOf(H.data.entries) = DatesOf(entries)
            /\ \A d \in DatesOf(entries) :
                  ItemsUnder(H.data.entries, d) = ItemsUnder(entries, d)

\* C25 witness: a Ledger of two dates, one item named by a digit, came back
C25_Witness ==
    /\ H.pc = "parsed_again"
    /\ Len(ledger.entries) = 2
    /\ ledger.entries[1].date # ledger.entries[2].date
    /\ \E i \in 1..2 : ledger.entries[i].items[1].name = <<"1">>
    /\ H.data.entries = ledger.entries

\* a YYYY-MM-DD date as the number YYYYMMDD
DateNumber(date) == ParseInt(SelectSeq(date, IsDigit))

\* the place of entry i when the entries stand in ascending order of date
Place(entries, i) ==
    1 + Cardinality({j \in 1..Len(entries) :
                        \/ DateNumber(entries[j].date) < DateNumber(entries[i].date)
                        \/ entries[j].date = entries[i].date /\ j < i})

RECURSIVE ItemsFromPlace(_, _)
ItemsFromPlace(entries, k) ==
    IF k > Len(entries) THEN <<>>
    ELSE LET entry == entries[CHOOSE i \in 1..Len(entries) : Place(entries, i) = k]
         IN  [j \in 1..Len(entry.items) |->
                 [date |-> entry.date, name |-> entry.items[j].name,
                  price |-> entry.items[j].price]]
             \o ItemsFromPlace(entries, k + 1)

RECURSIVE PriceSum(_)
PriceSum(entries) ==
    IF entries = <<>> THEN 0
    ELSE SumPrices(Head(entries).items) + PriceSum(Tail(entries))

\* C26: formatExpensesForAI gives the items of the filtered entries the ids
\* 1..n, n the number of all items, entries taken in ascending order of date
\* and the items of an entry in stored order; totalCount is n and totalAmount
\* the sum of the n prices.  The items the classifier is sent are these.
C26_FlattenAndNumber ==
    (Organizing /\ (H.pc = "org_classify" \/ Rendered)) =>
        LET r == formatExpensesForAI(H.data.entries, H.yearMonth, H.date)
            expected == ItemsFromPlace(H.data.entries, 1)
            n == TotalItems(H.data.entries)
        IN  /\ Len(r.items) = n
            /\ Len(expected) = n
            /\ \A i \in 1..n :
                  /\ r.items[i].id = i
                  /\ r.items[i].name = expected[i].name
                  /\ r.items[i].price = expected[i].price
                  /\ MonthDay(r.items[i].date) = DateNumber(expected[i].date) % 10000
            /\ r.totalCount = n
            /\ r.totalAmount = PriceSum(H.data.entries)
            /\ Rendered => H.sent = r.items

\* C26 witness: the entry stored first has the later date, and its items were
\* sent with the last ids
C26_Witness ==
    /\ Organizing
    /\ Rendered
    /\ Len(H.data.entries) = 2
    /\ DateNumber(H.data.entries[2].date) < DateNumber(H.data.entries[1].date)
    /\ Len(H.sent) = 3
    /\ H.sent[3].name = H.data.entries[1].items[1].name
    /\ H.sent[1].name = H.data.entries[2].items[1].name
    /\ H.sent[2].name = H.data.entries[2].items[2].name

\* the non-blank lines of a text, stripped
TextLines(text) ==
    SelectSeq([i \in 1..Len(SplitLines(text)) |-> Strip(SplitLines(text)[i])],
              LAMBDA l : l # <<>>)

\* the positions of the date headers among the lines
Headers(lines) == {i \in 1..Len(lines) : IsDateLine(lines[i])}

\* the items of the lines from position i up to the next header or the end
RECURSIVE SectionItems(_, _, _)
SectionItems(lines, i, date) ==
    IF i > Len(lines) \/ i \in Headers(lines) THEN <<>>
    ELSE HistoricalItem(lines[i], date) \o SectionItems(lines, i + 1, date)

\* one entry for each header from position i on whose section has an item
RECURSIVE SectionsFrom(_, _)
SectionsFrom(lines, i) ==
    IF i > Len(lines) THEN <<>>
    ELSE (IF i \in Headers(lines) /\ SectionItems(lines, i + 1, lines[i]) # <<>>
          THEN <<[date |-> lines[i], items |-> SectionItems(lines, i + 1, lines[i])]>>
          ELSE <<>>)
             \o SectionsFrom(lines, i + 1)

\* C27: parseHistoricalData emits one entry for each date section that holds
\* at least one parsed item, in the order of the headers in the text; a
\* header followed by no valid item emits no entry, and the section open at
\* the end of the text is emitted under the same rule.
C27_OneEntryPerSection ==
    H.pc = "loaded" =>
        /\ H.data.entries = SectionsFrom(TextLines(H.message), 1)
        /\ \A i \in 1..Len(H.data.entries) : H.data.entries[i].items # <<>>

\* C27 witness: two sections in the order of the text, the later date first,
\* the second one open at the end of the text
C27_Witness ==
    /\ H.pc = "loaded"
    /\ Len(H.data.entries) = 2
    /\ H.data.entries[1].date = <<"2", "/", "2">>
    /\ H.data.entries[2].date = <<"1", "/", "1">>

\* C27 witness of the empty section: the text has two headers, one entry
C27_WitnessEmptySection ==
    /\ H.pc = "loaded"
    /\ Cardinality(Headers(TextLines(H.message))) = 2
    /\ Len(H.data.entries) = 1
    /\ IsDateLine(Last(TextLines(H.message)))

\* the text is a date header and one line that is neither blank nor a header
HeaderAndLine(text) ==
    /\ Len(TextLines(text)) = 2
    /\ IsDateLine(TextLines(text)[1])
    /\ ~IsDateLine(TextLines(text)[2])

\* C28 (as stated): inside a date section parseHistoricalData produces an
\* item for a line exactly when parseExpenseMessage produces one for that
\* line, with the same name and price, lines of digits only included.
C28_SameAsLineParser ==
    (H.pc = "loaded" /\ HeaderAndLine(H.message)) =>
        ItemsUnder(H.data.entries, TextLines(H.message)[1])
            = parseExpenseMessage(TextLines(H.message)[2]).items

\* the two parsers agree on every line that does not consist of digits only
C28_SameExceptDigitsOnly ==
    (/\ H.pc = "loaded"
     /\ HeaderAndLine(H.message)
     /\ \E i \in 1..Len(TextLines(H.message)[2]) : ~IsDigit(TextLines(H.message)[2][i])) =>
        ItemsUnder(H.data.entries, TextLines(H.message)[1])
            = parseExpenseMessage(TextLines(H.message)[2]).items

\* addExpenses has returned success:false in the handler that is over
AddReturnedFailure == AddReturned /\ ~Last(hist).ok

\* C29 (as stated): whenever addExpenses returns success:false both documents
\* are what they were before the call, Ledger and Backup.
C29_FailedAddLeavesStore ==
    AddReturnedFailure => (ledger = H.pre.ledger /\ backup = H.pre.backup)

\* what does hold: a failed call leaves the Ledger document as it was
C29_FailedAddLeavesLedger ==
    AddReturnedFailure => ledger = H.pre.ledger

\* every caller's last call has returned success:true and none is running
AllReturnedSuccess == \A p \in DOMAIN proc : AddSucceeded(proc[p])

\* C30 (as stated): however the store operations of concurrent addExpenses
\* calls interleave, once all calls have returned the Ledger's entries are
\* the Backup's entries merged with the items of exactly one call.
C30_BackupIsPreStateAfterRace ==
    AllReturnedSuccess =>
        /\ backup.exists
        /\ \E items \in ItemLists, date \in {Date1} :
              ledger.entries = MergeItems(backup.entries, items, date)

\* C31: within one POST the events are handled in array order and one at a
\* time: the handling of an event (its reply, its store reads and writes)
\* begins only when the handling of the event before it is over, so no two
\* addExpenses calls of the request overlap and each event finds the store
\* as the event before it left it; the response is sent when no handling is
\* in progress, and 200 'OK' only after the last event's handling is over.
C31_EventsOneAtATime ==
    /\ \A p \in DOMAIN proc : \A o \in 1..(p - 1) :
          Started(proc[p]) => Finished(proc[o])
    /\ Cardinality({p \in DOMAIN proc : InProgress(proc[p])}) <= 1
    /\ \A p \in DOMAIN proc : proc[p].overlap = {}
    /\ \A p \in DOMAIN proc \ {1} :
          (Started(proc[p]) /\ AddSucceeded(proc[p - 1])) =>
              proc[p].pre.ledger.entries =
                  MergeItems(proc[p - 1].pre.ledger.entries, proc[p - 1].items,
                             proc[p - 1].date)
    /\ Responded =>
          /\ \A p \in DOMAIN proc : ~InProgress(proc[p])
          /\ \A p \in DOMAIN proc :
                proc[p].res.status = 200 => \A o \in DOMAIN proc : Finished(proc[o])

\* C31 witness: both events were expense records, both were saved, the second
\* on top of the first, and the request was answered 200
C31_Witness ==
    /\ proc[1].route = "expense"
    /\ proc[1].pc = "done"
    /\ Last(proc[1].log).e = "ledgerWrite"
    /\ proc[2].route = "expense"
    /\ proc[2].pc = "responded"
    /\ proc[2].res = Response("POST", 200, "OK")
    /\ TotalItems(ledger.entries) = Len(proc[1].items) + Len(proc[2].items)

\* C32: from an absent Ledger, whatever messages the dispatcher has handled,
\* every entry of the Ledger has at least one item, and every item a
\* non-empty name without outer whitespace and a price > 0.
C32_LedgerItemsWellFormed ==
    \A i \in 1..Len(ledger.entries) :
        /\ Len(ledger.entries[i].items) >= 1
        /\ \A j \in 1..Len(ledger.entries[i].items) :
              LET item == ledger.entries[i].items[j]
              IN  /\ item.name # <<>>
                  /\ ~IsSpace(item.name[1])
                  /\ ~IsSpace(item.name[Len(item.name)])
                  /\ item.price \in Nat \ {0}

\* C32 witness: expense records of two days were saved, one of them undone
\* before, and the Ledger holds two entries
C32_Witness ==
    /\ Len(ledger.entries) = 2
    /\ TotalItems(ledger.entries) = 3
    /\ lastAdd.ok
    /\ \E k \in 1..Len(hist) : OkCall(hist[k], "undo")

====
